---- MODULE Spec2Model ----
(***************************************************************************)
(* worktree-agent: the agent orchestrator and its registry.                *)
(*                                                                         *)
(* The state is the in-memory State of one orchestrator process, the       *)
(* state.json document it persists, and the observable reality the         *)
(* orchestrator reconciles against: tmux windows, status files, prompt     *)
(* files, worktrees, local branches and the branch checked out in the main *)
(* working tree.  One action per orchestrator                              *)
(* operation (launch, check_status, merge, remove, prune), one for a       *)
(* process restart (State::load_or_create), and two for what the provider  *)
(* process does on its own (write its status file, exit).  Further         *)
(* specifications put the same operations behind the HTTP handlers and     *)
(* their mutex, in two processes that share state.json, apply the pure     *)
(* functions of the command line to bounded inputs, take launch one step   *)
(* at a time, call the worktree manager on its own, and poll check_status  *)
(* under fairness.                                                         *)
(*                                                                         *)
(* Reads and writes of state.json are taken to succeed as file operations  *)
(* (what is read may still fail to parse); every other failure the         *)
(* code propagates with `?` (git, tmux, the prompt-file write, the parse   *)
(* of the status file) is modelled.                                        *)
(***************************************************************************)
EXTENDS Integers, Sequences, FiniteSets, TLC

\* Bound: launch is only attempted while the in-memory counter is <= MaxId.
MaxId == 2

None == "None"

\* <repo>/.worktree-agents, the directory Orchestrator::new passes to
\* State::load_or_create
StateDir == ".worktree-agents"

\* ------------------------------------------------------------------------
\* u64::to_string for the id (AgentId(self.state.next_id().to_string()))
\* ------------------------------------------------------------------------
Digit(d) ==
  CASE d = 0 -> "0" [] d = 1 -> "1" [] d = 2 -> "2" [] d = 3 -> "3"
    [] d = 4 -> "4" [] d = 5 -> "5" [] d = 6 -> "6" [] d = 7 -> "7"
    [] d = 8 -> "8" [] d = 9 -> "9"

RECURSIVE DecStr(_)
DecStr(n) == IF n < 10 THEN Digit(n) ELSE DecStr(n \div 10) \o Digit(n % 10)

\* format!("wta/{}", id.0)
AutoBranch(id) == "wta/" \o id

\* worktrees_dir.join(id), relative to the repository root
WorktreePath(id) == ".worktrees/" \o id

\* Every id the bounded model can allocate, as rendered strings.
Ids == {DecStr(k) : k \in 1..MaxId}

\* The branch the main working tree is on when the model starts.
CurrentBranch == "main"

\* Branch names a user may pass to launch.
UserBranches == {"feat"}

AgentStatus == {"Running", "Completed", "Failed", "Merged"}

\* Contents of <state>/status/<id>.json, by what check_status makes of them:
\* no file; not JSON; JSON whose "status" is the string "completed" or
\* "failed"; "unknown" is any other JSON document (no "status" member, a
\* "status" that is not a string, or another string), all of which take the
\* `_` arm of the match.
StatusFileContents == {"absent", "invalid", "completed", "failed", "unknown"}

VARIABLES
  state,         \* State: [state_dir, next_id, agents] of the running process
  disk,          \* state.json: [exists, syntax, next_id, agents], the agents
                 \* as the JSON objects serde writes
  windows,       \* names of the windows of the tmux session
  status_files,  \* id -> content of status/<id>.json
  prompt_files,  \* ids with a prompts/<id>.txt
  worktrees,     \* ids with a directory .worktrees/<id>
  branches,      \* local branches of the repository
  head,          \* the branch checked out in the main working tree
  last,          \* the most recent operation and what it returned
  hist           \* history of the id allocation, kept under SpecIds:
                 \*   initial_next_id  the counter when this process loaded
                 \*   calls            launch calls of this process
                 \*   issued           ids returned by successful launches, ever
                 \*   loaded           Len(issued) when this process loaded
                 \*   failed           whether a launch has ever failed
VARIABLES
  other,         \* a second process over the same state.json: st, its State,
                 \* and saver, the process that wrote state.json last
                 \* ("this", "other", "none")
  http,          \* the web server: the orchestrator mutex and its requests
  pure           \* what is exercised on its own: a call of a pure function with
                 \* its arguments and result, a launch taken step by step, or
                 \* the worktree manager with the directories it works on

vars == <<state, disk, windows, status_files, prompt_files, worktrees, branches, head, last, hist,
          other, http, pure>>

\* what only the specifications of the server, of the second process and of
\* the pure functions change
aux == <<other, http, pure>>

env == <<windows, status_files, prompt_files, worktrees, branches, head>>

\* ------------------------------------------------------------------------
\* State (orchestrator/state.rs)
\* ------------------------------------------------------------------------

\* Agent::new with the agent born finished
NewAgent_done(id, branch, base_branch) ==
  [ id            |-> id,
    branch        |-> branch,
    base_branch   |-> base_branch,
    worktree_path |-> ".worktrees/" \o id,
    tmux_window   |-> id,
    status        |-> "Completed",
    completed_at  |-> "Some" ]

\* Agent::new
NewAgent(id, branch, base_branch) ==
  [ id            |-> id,
    branch        |-> branch,
    base_branch   |-> base_branch,
    worktree_path |-> WorktreePath(id),
    tmux_window   |-> id,
    status        |-> "Running",
    completed_at  |-> None ]

\* State::next_id without the increment (a counter that is never advanced).
next_id_stuck(st) == [id |-> st.next_id, st |-> st]

\* State::next_id: post-increment
next_id(st) == [id |-> st.next_id, st |-> [st EXCEPT !.next_id = @ + 1]]

\* #[serde(rename_all = "lowercase")] on AgentStatus, written
serialize_status(s) ==
  CASE s = "Running"   -> "running"
    [] s = "Completed" -> "completed"
    [] s = "Failed"    -> "failed"
    [] s = "Merged"    -> "merged"

\* the variant names serde accepts for AgentStatus
StatusNames == {"running", "completed", "failed", "merged"}

\* #[serde(rename_all = "lowercase")] on AgentStatus, read
deserialize_status(j) ==
  CASE j = "running"   -> "Running"
    [] j = "completed" -> "Completed"
    [] j = "failed"    -> "Failed"
    [] j = "merged"    -> "Merged"

\* Option<DateTime<Utc>>: None is written as null, Some(t) as an RFC 3339
\* string
serialize_completed_at(c) == IF c = None THEN "null" ELSE "rfc3339"

\* completed_at read back as None whatever was written
deserialize_completed_at_none(j) == None

deserialize_completed_at(j) == IF j = "null" THEN None ELSE "Some"

\* derive(Serialize) on Agent
serialize_agent(a) ==
  [a EXCEPT !.status = serialize_status(@),
            !.completed_at = serialize_completed_at(@)]

\* derive(Deserialize) on Agent
deserialize_agent(j) ==
  [j EXCEPT !.status = deserialize_status(@),
            !.completed_at = deserialize_completed_at(@)]

\* no state.json
NoFile == [exists |-> FALSE, syntax |-> "json", next_id |-> 0, agents |-> <<>>]

\* State::save with the counter left out of the document (it reads back as 1)
save_skip_counter(st) ==
  [exists |-> TRUE, syntax |-> "json", next_id |-> 1,
   agents |-> [i \in 1..Len(st.agents) |-> serialize_agent(st.agents[i])]]

\* State::save with every agent written as running and unfinished
save_all_running(st) ==
  [exists |-> TRUE, syntax |-> "json", next_id |-> st.next_id,
   agents |-> [i \in 1..Len(st.agents) |->
                 [st.agents[i] EXCEPT !.status = "running", !.completed_at = "null"]]]

\* State::save: serde_json::to_string_pretty(self) replaces state.json; the
\* document is the whole in-memory registry, state_dir skipped
save(st) ==
  [exists |-> TRUE, syntax |-> "json", next_id |-> st.next_id,
   agents |-> [i \in 1..Len(st.agents) |-> serialize_agent(st.agents[i])]]

\* serde_json::from_str::<State> succeeds: the text is JSON, next_id is a
\* u64, every agent's status is a variant name and its completed_at null or
\* a timestamp
parses(d) ==
  /\ d.syntax = "json"
  /\ d.next_id >= 0
  /\ \A i \in 1..Len(d.agents) :
       /\ d.agents[i].status \in StatusNames
       /\ d.agents[i].completed_at \in {"null", "rfc3339"}

\* what a load returns: Ok(State) or Err(err); st is read only when ok
Loaded(ok, err, st) == [ok |-> ok, err |-> err, st |-> st]

\* State { state_dir, next_id: 1, agents: Vec::new() }
NewState(dir) == [state_dir |-> dir, next_id |-> 1, agents |-> <<>>]

\* load_or_create that forgets the stored counter
load_or_create_reset(dir, d) ==
  IF d.exists
  THEN Loaded(TRUE, None,
              [state_dir |-> dir, next_id |-> 1,
               agents |-> [i \in 1..Len(d.agents) |-> deserialize_agent(d.agents[i])]])
  ELSE Loaded(TRUE, None, NewState(dir))

\* load_or_create that reports a document it cannot parse as Error::Json
load_or_create_json_error(dir, d) ==
  IF d.exists
  THEN IF parses(d)
       THEN Loaded(TRUE, None,
                   [state_dir |-> dir, next_id |-> d.next_id,
                    agents |-> [i \in 1..Len(d.agents) |-> deserialize_agent(d.agents[i])]])
       ELSE Loaded(FALSE, "Json", NewState(dir))
  ELSE Loaded(TRUE, None, NewState(dir))

\* State::load_or_create
load_or_create(dir, d) ==
  IF d.exists                                             \* state_file.exists()
  THEN IF parses(d)
       THEN Loaded(TRUE, None,
                   [state_dir |-> dir,                    \* state.state_dir = ..
                    next_id |-> d.next_id,
                    agents |-> [i \in 1..Len(d.agents) |-> deserialize_agent(d.agents[i])]])
       ELSE Loaded(FALSE, "StateCorrupted", NewState(dir))  \* map_err
  ELSE Loaded(TRUE, None, NewState(dir))

\* State::add_agent (the push; the caller's action performs the save)
add_agent(st, agent) == [st EXCEPT !.agents = Append(@, agent)]

\* position of the first agent with this id, 0 when there is none
\* (State::get_agent / get_agent_mut: iter().find)
IndexOf(st, id) ==
  IF \E i \in 1..Len(st.agents) : st.agents[i].id = id
  THEN CHOOSE i \in 1..Len(st.agents) :
         /\ st.agents[i].id = id
         /\ \A j \in 1..(i - 1) : st.agents[j].id # id
  ELSE 0

HasAgent(st, id) == IndexOf(st, id) # 0

get_agent(st, id) == st.agents[IndexOf(st, id)]

\* State::remove_agent with a retain that keeps nothing
remove_agent_all(st, id) == [st EXCEPT !.agents = <<>>]

\* State::remove_agent: retain(|a| a.id != id)
remove_agent(st, id) ==
  [st EXCEPT !.agents = SelectSeq(@, LAMBDA a : a.id # id)]

\* ------------------------------------------------------------------------
\* Results
\* ------------------------------------------------------------------------
NoPre == [status |-> "-", file |-> "-", window |-> FALSE, worktree |-> FALSE]

\* What a call leaves for its caller and for the properties below: the
\* operation and its id, Ok/Err and the value, whether save() ran, and of the
\* call itself: force, the launch request and the worktree-manager call it
\* led to, how merge_branch ended ("-" when it was not called), how the
\* cleanup of the worktree and branch ended, the ids prune returned, and
\* what check_status/remove/merge found when called.
Outcome(op, id, ok, val, saved) ==
  [op |-> op, id |-> id, ok |-> ok, val |-> val, saved |-> saved,
   force |-> FALSE, req |-> <<"-", "-">>, via |-> "-", engine |-> "-",
   cleanup |-> "-", pruned |-> <<>>, pre |-> NoPre]

\* No call is in progress: the caller has taken the result of the last one.
Idle == Outcome("idle", "-", TRUE, "-", FALSE)

\* The requests the web server may be serving at one time.
Requests == {"r1", "r2"}

\* a request slot with no request in it
NoRequest == [pc |-> "idle", handler |-> "-", todo |-> <<>>, seen |-> {}]

\* the server as run_server leaves it: the mutex unlocked, no request
\*   holder    the request that holds the MutexGuard, None when unlocked
\*   reqs      per request: where it is (idle, waiting at
\*             state.lock().await, locked), and once it holds the lock its
\*             handler, the ids it has still to call the orchestrator for,
\*             and for each call made what the call found: <<id, whether
\*             the agent had finished, Ok or Err>>
NoHttp == [holder |-> None, reqs |-> [r \in Requests |-> NoRequest]]

\* no pure function has been called
NoCall == [fn |-> "-"]

Init ==
  /\ state = load_or_create(StateDir, NoFile).st
  /\ disk = NoFile
  /\ other = [st |-> load_or_create(StateDir, NoFile).st, saver |-> "none"]
  /\ http = NoHttp
  /\ pure = NoCall
  /\ windows = {}
  /\ status_files = [i \in Ids |-> "absent"]
  /\ prompt_files = {}
  /\ worktrees = {}
  /\ branches = {"main", "feat"}
  /\ head = CurrentBranch
  /\ last = Idle
  /\ hist = [initial_next_id |-> 1, calls |-> 0, loaded |-> 0,
             issued |-> <<>>, failed |-> FALSE]


\* ------------------------------------------------------------------------
\* Worktree manager, tmux manager (git/worktree.rs, tmux/mod.rs)
\* ------------------------------------------------------------------------

\* WorktreeManager::branch_exists that finds no branch
branch_exists_never(b) == FALSE

\* WorktreeManager::branch_exists: local ref or origin/<name>.  The model has
\* no remote, so a branch exists iff it is a local branch.
branch_exists(b) == b \in branches

\* TmuxManager::window_exists
window_exists(w) == w \in windows

\* kill-window that closes every window of the session
kill_window_all(ws, w) == {}

\* TmuxManager::kill_window; the caller ignores its error when w is absent
kill_window(ws, w) == ws \ {w}

\* ------------------------------------------------------------------------
\* Orchestrator::check_status, as a function of the current state: the new
\* State, the new window set, the value returned, and whether save() ran.
\* ------------------------------------------------------------------------

\* the match on status_data.get("status").and_then(|s| s.as_str()), with the
\* unknown case mapped to Failed instead of the early return
status_from_file_strict(content) ==
  CASE content = "completed" -> "Completed"
    [] content = "failed"    -> "Failed"
    [] OTHER                 -> "Failed"

\* the match on status_data.get("status").and_then(|s| s.as_str())
status_from_file(content) ==
  CASE content = "completed" -> "Completed"
    [] content = "failed"    -> "Failed"
    [] OTHER                 -> None

\* agent.status = s; agent.completed_at = Some(Utc::now()), without the stamp
finish_agent_nostamp(st, id, s) ==
  [st EXCEPT !.agents[IndexOf(st, id)].status = s]

\* agent.status = s; agent.completed_at = Some(Utc::now())
finish_agent(st, id, s) ==
  [st EXCEPT !.agents[IndexOf(st, id)].status = s,
             !.agents[IndexOf(st, id)].completed_at = "Some"]

CsResult(st, ws, ok, val, saved) ==
  [st |-> st, windows |-> ws, ok |-> ok, val |-> val, saved |-> saved]

\* check_status that probes the window before it reads the status file
check_status_window_first(id) ==
  IF ~HasAgent(state, id) THEN CsResult(state, windows, FALSE, "AgentNotFound", FALSE)
  ELSE LET agent == get_agent(state, id) IN
    IF agent.status # "Running" THEN CsResult(state, windows, TRUE, agent.status, FALSE)
    ELSE IF ~window_exists(agent.tmux_window)
    THEN CsResult(finish_agent(state, id, "Failed"), windows, TRUE, "Failed", TRUE)
    ELSE IF status_files[id] = "invalid" THEN CsResult(state, windows, FALSE, "Json", FALSE)
    ELSE IF status_files[id] # "absent" /\ status_from_file(status_files[id]) # None
    THEN CsResult(finish_agent(state, id, status_from_file(status_files[id])),
                  kill_window(windows, agent.tmux_window), TRUE,
                  status_from_file(status_files[id]), TRUE)
    ELSE CsResult(state, windows, TRUE, agent.status, FALSE)

\* check_status without the short-circuit for agents that are not Running
check_status_no_shortcut(id) ==
  IF ~HasAgent(state, id) THEN CsResult(state, windows, FALSE, "AgentNotFound", FALSE)
  ELSE LET agent == get_agent(state, id) IN
    IF status_files[id] = "invalid" THEN CsResult(state, windows, FALSE, "Json", FALSE)
    ELSE IF status_files[id] # "absent" /\ status_from_file(status_files[id]) # None
    THEN CsResult(finish_agent(state, id, status_from_file(status_files[id])),
                  kill_window(windows, agent.tmux_window), TRUE,
                  status_from_file(status_files[id]), TRUE)
    ELSE IF status_files[id] = "absent" /\ ~window_exists(agent.tmux_window)
    THEN CsResult(finish_agent(state, id, "Failed"), windows, TRUE, "Failed", TRUE)
    ELSE CsResult(state, windows, TRUE, agent.status, FALSE)

check_status(id) ==
  IF ~HasAgent(state, id)
  THEN CsResult(state, windows, FALSE, "AgentNotFound", FALSE)
  ELSE LET agent == get_agent(state, id) IN
    IF agent.status # "Running"
    THEN CsResult(state, windows, TRUE, agent.status, FALSE)
    ELSE IF status_files[id] # "absent"                      \* status_file.exists()
    THEN IF status_files[id] = "invalid"                     \* serde_json::from_str(..)?
         THEN CsResult(state, windows, FALSE, "Json", FALSE)
         ELSE LET new_status == status_from_file(status_files[id]) IN
              IF new_status = None
              THEN CsResult(state, windows, TRUE, agent.status, FALSE)
              ELSE CsResult(finish_agent(state, id, new_status),
                            kill_window(windows, agent.tmux_window),
                            TRUE, new_status, TRUE)
    ELSE IF ~window_exists(agent.tmux_window)
    THEN CsResult(finish_agent(state, id, "Failed"), windows, TRUE, "Failed", TRUE)
    ELSE CsResult(state, windows, TRUE, agent.status, FALSE)

PreOf(id) ==
  [status |-> IF HasAgent(state, id) THEN get_agent(state, id).status ELSE "-",
   file   |-> status_files[id],
   window |-> window_exists(id),
   worktree |-> id \in worktrees]

\* a call of check_status(id), recorded as operation op
CheckStatusCall(op, id) ==
  LET r == check_status(id) IN
  /\ state' = r.st
  /\ windows' = r.windows
  /\ disk' = IF r.saved THEN save(r.st) ELSE disk
  /\ last' = [Outcome(op, id, r.ok, r.val, r.saved) EXCEPT !.pre = PreOf(id)]
  /\ UNCHANGED <<status_files, prompt_files, worktrees, branches, head, hist>>

\* check_status as `wta status <id>` and GET /api/agents/{id} call it
CheckStatus(id) ==
  /\ last = Idle
  /\ CheckStatusCall("check_status", id)

\* ------------------------------------------------------------------------
\* Orchestrator::launch
\* ------------------------------------------------------------------------
LaunchFailures == {"none", "probe", "git", "session", "window", "prompt", "send_keys"}

\* Orchestrator::get_current_branch: the shorthand of HEAD
get_current_branch == head

\* step 13, reached only when no earlier step returned with `?`, here done
\* whatever the earlier steps returned
register_always(st, err, agent) == add_agent(st, agent)

\* step 13 (Agent::new, add_agent), reached only when no earlier step
\* returned with `?`
register(st, err, agent) == IF err = None THEN add_agent(st, agent) ELSE st

\* launch as a function of the current state and of the request: the id
\* allocated, the error returned (None on success), the State afterwards and
\* the artifacts made on the way.
launch(req_branch, req_base, fail) ==
  LET alloc    == next_id(state)                                  \* step 1
      id       == DecStr(alloc.id)
      existing == req_branch # None /\ fail # "probe" /\ branch_exists(req_branch)
      branch   == IF req_branch # None THEN req_branch ELSE AutoBranch(id)
      base     == IF existing THEN req_branch
                  ELSE IF req_base # None THEN req_base ELSE get_current_branch
      \* the error of the branch probe or of the worktree step, None when the
      \* worktree is made
      wt_err   == IF fail = "probe" THEN "Io"
                  ELSE IF id \in worktrees THEN "WorktreeAlreadyExists"
                  ELSE IF ~existing /\ branch \in branches THEN "BranchAlreadyExists"
                  ELSE IF fail = "git" \/ base \notin branches THEN "CommandFailed"
                  ELSE None
      err      == IF wt_err # None THEN wt_err
                  ELSE CASE fail = "session"   -> "Tmux"
                         [] fail = "window"    -> "Tmux"
                         [] fail = "prompt"    -> "Io"
                         [] fail = "send_keys" -> "Tmux"
                         [] OTHER              -> None
  IN [ id          |-> id,
       err         |-> err,
       branch      |-> branch,
       made_wt     |-> wt_err = None,
       made_window |-> wt_err = None /\ fail \notin {"session", "window"},
       made_prompt |-> wt_err = None /\ fail \notin {"session", "window", "prompt"},
       via         |-> IF fail = "probe" THEN "-"
                       ELSE IF existing THEN "checkout_existing" ELSE "create",
       st          |-> register(alloc.st, err, NewAgent(id, branch, base)) ]

\* The launch without the bookkeeping of the id history.
LaunchStep(req_branch, req_base, fail) ==
  /\ last = Idle
  /\ state.next_id <= MaxId
  /\ Len(state.agents) < MaxId
  /\ fail = "probe" => req_branch # None
  /\ LET r == launch(req_branch, req_base, fail) IN
     /\ worktrees' = IF r.made_wt THEN worktrees \cup {r.id} ELSE worktrees
     /\ branches' = IF r.made_wt THEN branches \cup {r.branch} ELSE branches
     /\ windows' = IF r.made_window THEN windows \cup {r.id} ELSE windows
     /\ prompt_files' = IF r.made_prompt THEN prompt_files \cup {r.id} ELSE prompt_files
     /\ UNCHANGED <<status_files, head>>
     /\ state' = r.st
     /\ disk' = IF r.err = None THEN save(r.st) ELSE disk      \* add_agent saves
     /\ last' = [ (IF r.err = None
                   THEN Outcome("launch", r.id, TRUE, r.id, TRUE)
                   ELSE Outcome("launch", r.id, FALSE, r.err, FALSE))
                 EXCEPT !.req = <<req_branch, req_base>>, !.via = r.via ]

Launch(req_branch, req_base, fail) ==
  /\ LaunchStep(req_branch, req_base, fail)
  /\ UNCHANGED hist

\* The launch, recording in hist the call and the id it returned.
LaunchTracked(req_branch, req_base, fail) ==
  /\ LaunchStep(req_branch, req_base, fail)
  /\ hist' = IF last'.ok
             THEN [hist EXCEPT !.calls = @ + 1, !.issued = Append(@, last'.id)]
             ELSE [hist EXCEPT !.calls = @ + 1, !.failed = TRUE]

\* ------------------------------------------------------------------------
\* The provider process and the user, outside the orchestrator
\* ------------------------------------------------------------------------

\* The provider running in window id writes (or partly writes) its status file.
AgentWritesStatus(id, content) ==
  /\ last = Idle
  /\ id \in windows
  /\ HasAgent(disk, id)
  /\ status_files[id] \in {"absent", "invalid"}
  /\ content \in StatusFileContents \ {"absent", status_files[id]}
  /\ status_files' = [status_files EXCEPT ![id] = content]
  /\ UNCHANGED <<state, disk, windows, prompt_files, worktrees, branches, head, hist, last>>

\* The provider exits, or the user closes or kills the window.
WindowExits(id) ==
  /\ last = Idle
  /\ id \in windows
  /\ windows' = windows \ {id}
  /\ UNCHANGED <<state, disk, status_files, prompt_files, worktrees, branches, head, hist, last>>

\* The process exits and a new one starts: Orchestrator::new loads state.json.
RestartStep ==
  /\ last = Idle
  /\ load_or_create(StateDir, disk).ok
  /\ state' = load_or_create(StateDir, disk).st
  /\ UNCHANGED <<disk, windows, status_files, prompt_files, worktrees, branches, head, last>>

Restart == RestartStep /\ UNCHANGED hist

\* The restart, recording in hist the counter the new process starts from.
RestartTracked ==
  /\ RestartStep
  /\ hist' = [hist EXCEPT !.initial_next_id = state'.next_id, !.calls = 0,
                          !.loaded = Len(hist.issued)]


\* ------------------------------------------------------------------------
\* Cleanup of an agent's resources (the tail of merge and remove, and
\* cleanup_agent_resources).  Each step is best-effort; how the git steps end
\* is the environment's choice:
\*   "ok"      the worktree is removed and the branch deleted (each a no-op
\*             when it is already gone)
\*   "wt_fail" git worktree remove fails; the branch, still checked out in
\*             the worktree, is not deleted either
\*   "br_fail" the worktree is removed, branch.delete() fails
\* and branch.delete() always fails for the branch that is HEAD of the main
\* working tree.
\* ------------------------------------------------------------------------
CleanupOutcomes == {"ok", "wt_fail", "br_fail"}

\* WorktreeManager::remove, error ignored by the caller
worktrees_after(wts, id, cleanup) ==
  IF cleanup = "wt_fail" THEN wts ELSE wts \ {id}

\* repo.find_branch(..).delete(), error ignored by the caller
branches_after(brs, branch, cleanup, hd) ==
  IF cleanup = "ok" /\ branch # hd THEN brs \ {branch} ELSE brs

\* std::fs::remove_file(prompt_file), error ignored
prompts_after(ps, id) == ps \ {id}

\* std::fs::remove_file(status_file), error ignored
status_after(sf, id) == [sf EXCEPT ![id] = "absent"]

\* ------------------------------------------------------------------------
\* Orchestrator::merge
\* ------------------------------------------------------------------------
MergeStrategy == {"Merge", "Rebase", "Squash"}

\* How git::merge::merge_branch can end for this agent; the git commands are
\* the environment's:
\*   "checkout_failed"  the first checkout of the base branch fails
\*   "ok"               the strategy succeeds, HEAD on the base branch
\*   "conflict"         a conflict is detected and the strategy aborts
\*   "failed"           a later git command fails with HEAD on the base branch
\*   "failed_on_branch" rebase only: a git command fails after the checkout
\*                      of the agent's branch
\* A base branch that does not exist cannot be checked out; a branch that
\* does not exist cannot be merged, rebased or checked out; and git refuses
\* to check out, in the main working tree, a branch that is checked out in
\* the agent's worktree, so do_rebase gets past its checkout(branch) only
\* once that worktree is gone.
MergeOutcomes(agent, strategy) ==
  IF agent.base_branch \notin branches THEN {"checkout_failed"}
  ELSE IF agent.branch \notin branches THEN {"checkout_failed", "failed"}
  ELSE IF strategy = "Rebase"
  THEN IF agent.id \in worktrees
       THEN {"checkout_failed", "failed"}
       ELSE {"checkout_failed", "ok", "conflict", "failed", "failed_on_branch"}
  ELSE {"checkout_failed", "ok", "conflict", "failed"}

\* merge_branch that reports a conflict as a success
merge_branch_conflict_ok(agent, strategy, outcome) ==
  [ ok   |-> outcome \in {"ok", "conflict"},
    err  |-> IF outcome \in {"ok", "conflict"} THEN None ELSE "CommandFailed",
    head |-> IF outcome = "checkout_failed" THEN head ELSE agent.base_branch ]

\* merge_branch: whether it succeeded, the error it returned, and the branch
\* the main working tree is left on
merge_branch(agent, strategy, outcome) ==
  [ ok   |-> outcome = "ok",
    err  |-> CASE outcome = "ok"       -> None
               [] outcome = "conflict" -> "MergeConflict"
               [] OTHER                -> "CommandFailed",
    head |-> CASE outcome = "checkout_failed" -> head
               [] strategy = "Rebase" /\ outcome \in {"conflict", "failed_on_branch"}
                    -> agent.branch                       \* do_rebase: checkout(branch)
               [] OTHER -> agent.base_branch ]            \* checkout(base_branch)

\* agent.status = AgentStatus::Merged, with Merged turned into a reset
mark_merged_reset(st, id) ==
  [st EXCEPT !.agents[IndexOf(st, id)].status = "Running",
             !.agents[IndexOf(st, id)].completed_at = None]

\* agent.status = AgentStatus::Merged (completed_at is not touched)
mark_merged(st, id) ==
  [st EXCEPT !.agents[IndexOf(st, id)].status = "Merged"]

\* if agent.status == AgentStatus::Running && !force, with the test dropped
still_running_never(agent, force) == FALSE

\* if agent.status == AgentStatus::Running && !force
still_running(agent, force) == agent.status = "Running" /\ ~force

\* a call of Orchestrator::merge; via names the caller when it is not the
\* web handler
MergeCall(via, id, strategy, force, outcome, cleanup) ==
  /\ IF ~HasAgent(state, id)
     THEN /\ outcome = "failed" /\ cleanup = "ok" /\ strategy = "Merge"
          /\ last' = [Outcome("merge", id, FALSE, "AgentNotFound", FALSE)
                        EXCEPT !.force = force, !.via = via, !.pre = PreOf(id)]
          /\ UNCHANGED <<state, disk, env, hist>>
     ELSE LET agent == get_agent(state, id) IN
       IF still_running(agent, force)
       THEN /\ outcome = "failed" /\ cleanup = "ok" /\ strategy = "Merge"
            /\ last' = [Outcome("merge", id, FALSE, "AgentStillRunning", FALSE)
                          EXCEPT !.force = force, !.via = via, !.pre = PreOf(id)]
            /\ UNCHANGED <<state, disk, env, hist>>
       ELSE /\ outcome \in MergeOutcomes(agent, strategy)
            /\ LET r == merge_branch(agent, strategy, outcome) IN
               /\ head' = r.head
               /\ IF r.ok
                  THEN /\ worktrees' = worktrees_after(worktrees, id, cleanup)
                       /\ branches' = branches_after(branches, agent.branch, cleanup, r.head)
                       /\ prompt_files' = prompts_after(prompt_files, id)
                       /\ status_files' = status_after(status_files, id)
                       /\ state' = mark_merged(state, id)
                       /\ disk' = save(state')
                       /\ last' = [Outcome("merge", id, TRUE, "success", TRUE)
                                     EXCEPT !.force = force, !.via = via,
                                            !.engine = outcome,
                                            !.cleanup = cleanup, !.pre = PreOf(id)]
                       /\ UNCHANGED <<windows, hist>>
                  ELSE /\ cleanup = "ok"
                       /\ last' = [Outcome("merge", id, FALSE, r.err, FALSE)
                                     EXCEPT !.force = force, !.via = via,
                                            !.engine = outcome,
                                            !.pre = PreOf(id)]
                       /\ UNCHANGED <<state, disk, windows, status_files,
                                      prompt_files, worktrees, branches, hist>>

\* web/api.rs merge_agent: under the lock, orchestrator.merge(&id, strategy,
\* force) and nothing before it
Merge(id, strategy, force, outcome, cleanup) ==
  /\ last = Idle
  /\ MergeCall("-", id, strategy, force, outcome, cleanup)

\* the registry of the running process is the one state.json holds, as in a
\* process that Orchestrator::new has just made
Fresh == load_or_create(StateDir, disk) = Loaded(TRUE, None, state)

\* cli/merge.rs run, first half: Orchestrator::new()?, then
\* orchestrator.check_status(&id)?; an error ends the command
CliMergeCheck(id) ==
  /\ last = Idle
  /\ Fresh
  /\ CheckStatusCall("cli_merge_check", id)

\* cli/merge.rs run, second half: orchestrator.merge(&id, strategy, force)
CliMerge(strategy, force, outcome, cleanup) ==
  /\ last.op = "cli_merge_check"
  /\ last.ok
  /\ MergeCall("cli", last.id, strategy, force, outcome, cleanup)

\* ------------------------------------------------------------------------
\* Orchestrator::remove
\* ------------------------------------------------------------------------
Remove(id, force, cleanup) ==
  LET r == check_status(id) IN                       \* self.check_status(id)?
  /\ last = Idle
  /\ IF ~r.ok
     THEN /\ cleanup = "ok"
          /\ state' = r.st
          /\ windows' = r.windows
          /\ disk' = IF r.saved THEN save(r.st) ELSE disk
          /\ last' = [Outcome("remove", id, FALSE, r.val, r.saved)
                        EXCEPT !.force = force, !.pre = PreOf(id)]
          /\ UNCHANGED <<status_files, prompt_files, worktrees, branches, head, hist>>
     ELSE LET agent == get_agent(r.st, id)
              is_running == agent.status = "Running" /\ agent.tmux_window \in r.windows
          IN
       IF is_running /\ ~force
       THEN /\ cleanup = "ok"
            /\ state' = r.st
            /\ windows' = r.windows
            /\ disk' = IF r.saved THEN save(r.st) ELSE disk
            /\ last' = [Outcome("remove", id, FALSE, "AgentStillRunning", r.saved)
                          EXCEPT !.force = force, !.pre = PreOf(id)]
            /\ UNCHANGED <<status_files, prompt_files, worktrees, branches, head, hist>>
       ELSE /\ windows' = kill_window(r.windows, agent.tmux_window)
            /\ worktrees' = worktrees_after(worktrees, id, cleanup)
            /\ branches' = branches_after(branches, agent.branch, cleanup, head)
            /\ prompt_files' = prompts_after(prompt_files, id)
            /\ status_files' = status_after(status_files, id)
            /\ state' = remove_agent(r.st, id)
            /\ disk' = save(state')
            /\ last' = [Outcome("remove", id, TRUE, "-", TRUE)
                          EXCEPT !.force = force, !.cleanup = cleanup,
                                 !.pre = PreOf(id)]
            /\ UNCHANGED <<head, hist>>

\* ------------------------------------------------------------------------
\* Orchestrator::prune
\* ------------------------------------------------------------------------
PruneFilters == {"All", "Inactive"} \cup AgentStatus

\* the closure passed to filter() in prune, with Merged left out of Inactive
matches_no_merged(filter, agent) ==
  CASE filter = "All"      -> TRUE
    [] filter = "Inactive" -> agent.status \in {"Completed", "Failed"}
    [] OTHER               -> agent.status = filter

\* the closure passed to filter() in prune
matches(filter, agent) ==
  CASE filter = "All"      -> TRUE
    [] filter = "Inactive" -> agent.status \in {"Merged", "Completed", "Failed"}
    [] OTHER               -> agent.status = filter

\* the loop of prune, left after its first iteration
RemoveAll_stops(st, ids) ==
  IF ids = <<>> THEN st ELSE remove_agent(st, Head(ids))

RECURSIVE RemoveAll(_, _)
\* the loop of prune over the registry: remove_agent for each pruned id
RemoveAll(st, ids) ==
  IF ids = <<>> THEN st ELSE RemoveAll(remove_agent(st, Head(ids)), Tail(ids))

SeqToSet(q) == {q[i] : i \in 1..Len(q)}

Prune(filter, cleanup) ==
  LET to_prune == SelectSeq(state.agents, LAMBDA a : matches(filter, a))
      ids      == [i \in 1..Len(to_prune) |-> to_prune[i].id]
      idset    == SeqToSet(ids)
      brset(c) == {to_prune[i].branch : i \in {j \in 1..Len(to_prune) : cleanup[to_prune[j].id] = c}}
  IN
  /\ last = Idle
  /\ \A i \in (DOMAIN cleanup) \ idset : cleanup[i] = "ok"
  /\ windows' = windows \ {to_prune[i].tmux_window : i \in 1..Len(to_prune)}
  /\ worktrees' = worktrees \ {i \in idset : cleanup[i] # "wt_fail"}
  /\ branches' = branches \ (brset("ok") \ {head})
  /\ prompt_files' = prompt_files \ idset
  /\ status_files' = [i \in DOMAIN status_files |->
                        IF i \in idset THEN "absent" ELSE status_files[i]]
  /\ state' = RemoveAll(state, ids)
  /\ disk' = IF ids = <<>> THEN disk ELSE save(state')
  /\ last' = [Outcome("prune", filter, TRUE, "-", ids # <<>>) EXCEPT !.pruned = to_prune]
  /\ UNCHANGED <<head, hist>>

\* The caller takes the result; the next call or event may then happen.
Return ==
  /\ last # Idle
  /\ last' = Idle
  /\ UNCHANGED <<state, disk, env, hist>>

\* ------------------------------------------------------------------------
Next ==
  \/ \E b \in {None} \cup UserBranches, base \in {None, CurrentBranch}, f \in LaunchFailures :
       Launch(b, base, f) /\ UNCHANGED aux
  \/ \E id \in Ids : CheckStatus(id) /\ UNCHANGED aux
  \/ \E id \in Ids, s \in MergeStrategy, force \in BOOLEAN,
        o \in {"checkout_failed", "ok", "conflict", "failed", "failed_on_branch"},
        c \in CleanupOutcomes :
       Merge(id, s, force, o, c) /\ UNCHANGED aux
  \/ \E id \in Ids, force \in BOOLEAN, c \in CleanupOutcomes : Remove(id, force, c) /\ UNCHANGED aux
  \/ \E f \in PruneFilters, c \in [Ids -> CleanupOutcomes] : Prune(f, c) /\ UNCHANGED aux
  \/ \E id \in Ids, c \in StatusFileContents : AgentWritesStatus(id, c) /\ UNCHANGED aux
  \/ \E id \in Ids : WindowExits(id) /\ UNCHANGED aux
  \/ Restart /\ UNCHANGED aux
  \/ Return /\ UNCHANGED aux

Spec == Init /\ [][Next]_vars

\* The same system with the `wta merge` command next to the web handler.
NextCli ==
  \/ Next
  \/ \E id \in Ids : CliMergeCheck(id) /\ UNCHANGED aux
  \/ \E s \in MergeStrategy, force \in BOOLEAN,
        o \in {"checkout_failed", "ok", "conflict", "failed", "failed_on_branch"},
        c \in CleanupOutcomes :
       CliMerge(s, force, o, c) /\ UNCHANGED aux

SpecCli == Init /\ [][NextCli]_vars

\* The same system with the id history recorded; its launch requests name no
\* branch (the branch is wta/<id>), which is the case where the id decides
\* whether the worktree and the branch can be made.
NextIds ==
  \/ \E base \in {None, CurrentBranch}, f \in LaunchFailures :
       LaunchTracked(None, base, f) /\ UNCHANGED aux
  \/ \E id \in Ids : CheckStatus(id) /\ UNCHANGED aux
  \/ \E id \in Ids, s \in MergeStrategy, force \in BOOLEAN,
        o \in {"checkout_failed", "ok", "conflict", "failed", "failed_on_branch"},
        c \in CleanupOutcomes :
       Merge(id, s, force, o, c) /\ UNCHANGED aux
  \/ \E id \in Ids, force \in BOOLEAN, c \in CleanupOutcomes : Remove(id, force, c) /\ UNCHANGED aux
  \/ \E f \in PruneFilters, c \in [Ids -> CleanupOutcomes] : Prune(f, c) /\ UNCHANGED aux
  \/ \E id \in Ids, c \in StatusFileContents : AgentWritesStatus(id, c) /\ UNCHANGED aux
  \/ \E id \in Ids : WindowExits(id) /\ UNCHANGED aux
  \/ RestartTracked /\ UNCHANGED aux
  \/ Return /\ UNCHANGED aux

SpecIds == Init /\ [][NextIds]_vars


\* ------------------------------------------------------------------------
\* prune on a registry of PruneN agents, one for each way of giving them
\* statuses: agent k was launched k-th with branch wta/<k> from the current
\* branch; a Running agent has its window, a Completed or Failed one the
\* status file that made it so, a Merged one has been cleaned up.
\* ------------------------------------------------------------------------
PruneN == 4

PruneIds == {DecStr(k) : k \in 1..PruneN}

InitPrune ==
  \E sts \in [1..PruneN -> AgentStatus] :
    /\ state = [ state_dir |-> StateDir,
                 next_id |-> PruneN + 1,
                 agents  |-> [k \in 1..PruneN |->
                    [NewAgent(DecStr(k), AutoBranch(DecStr(k)), CurrentBranch)
                       EXCEPT !.status = sts[k],
                              !.completed_at = IF sts[k] = "Running" THEN None ELSE "Some"]] ]
    /\ disk = save(state)
    /\ windows = {DecStr(k) : k \in {j \in 1..PruneN : sts[j] = "Running"}}
    /\ status_files = [i \in PruneIds |->
                         LET k == CHOOSE j \in 1..PruneN : DecStr(j) = i IN
                         CASE sts[k] = "Completed" -> "completed"
                           [] sts[k] = "Failed"    -> "failed"
                           [] OTHER                -> "absent"]
    /\ prompt_files = {DecStr(k) : k \in {j \in 1..PruneN : sts[j] # "Merged"}}
    /\ worktrees = {DecStr(k) : k \in {j \in 1..PruneN : sts[j] # "Merged"}}
    /\ branches = {"main", "feat"}
                    \cup {AutoBranch(DecStr(k)) : k \in {j \in 1..PruneN : sts[j] # "Merged"}}
    /\ head = CurrentBranch
    /\ last = Idle
    /\ hist = [initial_next_id |-> PruneN + 1, calls |-> 0, loaded |-> 0,
               issued |-> <<>>, failed |-> FALSE]
    /\ other = [st |-> state, saver |-> "none"]
    /\ http = NoHttp
    /\ pure = NoCall

NextPrune ==
  \/ \E f \in PruneFilters, c \in [PruneIds -> CleanupOutcomes] : Prune(f, c) /\ UNCHANGED aux
  \/ Return /\ UNCHANGED aux

SpecPrune == InitPrune /\ [][NextPrune]_vars

\* ------------------------------------------------------------------------
\* The web server (web/server.rs, web/api.rs): one Orchestrator behind one
\* tokio Mutex, and a handler per request.  Every handler starts with
\* state.lock().await and keeps the guard until it returns.  The server
\* starts on a registry of MaxId running agents launched from the command
\* line.
\* ------------------------------------------------------------------------
Handlers == {"list_agents", "get_agent", "merge_agent", "remove_agent"}

\* what is there for check_status to find: the agent's status file says
\* completed or failed, or it has no status file and its window is gone
Finished(id) ==
  \/ status_files[id] \in {"completed", "failed"}
  \/ status_files[id] = "absent" /\ ~window_exists(id)

\* Mutex::lock that is granted while another guard is alive
lock_free_always == TRUE

\* Mutex::lock().await resolves only while no guard is alive
lock_free == http.holder = None

\* list_agents that reconciles nothing
list_ids_none(st) == <<>>

\* orchestrator.list().iter().map(|a| a.id.0.clone()).collect()
list_ids(st) == [i \in 1..Len(st.agents) |-> st.agents[i].id]

\* a request arrives and its handler reaches state.lock().await
HttpArrive(r) ==
  /\ http.reqs[r].pc = "idle"
  /\ http' = [http EXCEPT !.reqs[r].pc = "waiting"]
  /\ UNCHANGED <<state, disk, env, last, hist, other, pure>>

\* the lock is granted to the request, which is for handler h and agent id;
\* list_agents collects the ids of the registry, the other handlers have
\* the id of their path
HttpLock(r, h, id) ==
  /\ http.reqs[r].pc = "waiting"
  /\ lock_free
  /\ h = "list_agents" => id = "1"
  /\ http' = [http EXCEPT !.holder = r,
                           !.reqs[r] = [pc |-> "locked", handler |-> h,
                                        todo |-> IF h = "list_agents"
                                                 THEN list_ids(state) ELSE <<id>>,
                                        seen |-> {}]]
  /\ UNCHANGED <<state, disk, env, last, hist, other, pure>>

\* the handler has made its next orchestrator call
Called(r) ==
  /\ http' = [http EXCEPT
       !.reqs[r].todo = Tail(@),
       !.reqs[r].seen = @ \cup {<<Head(http.reqs[r].todo),
                                  Finished(Head(http.reqs[r].todo)), last'.ok>>}]
  /\ UNCHANGED <<other, pure>>

\* list_agents, get_agent: let _ = orchestrator.check_status(&id)
HttpCheckStatus(r) ==
  /\ http.reqs[r].handler \in {"list_agents", "get_agent"}
  /\ http.reqs[r].pc = "locked" /\ http.reqs[r].todo # <<>>
  /\ CheckStatus(Head(http.reqs[r].todo))
  /\ Called(r)

\* merge_agent: orchestrator.merge(&id, strategy, force).await
HttpMerge(r, strategy, force, outcome, cleanup) ==
  /\ http.reqs[r].handler = "merge_agent"
  /\ http.reqs[r].pc = "locked" /\ http.reqs[r].todo # <<>>
  /\ Merge(Head(http.reqs[r].todo), strategy, force, outcome, cleanup)
  /\ Called(r)

\* remove_agent: orchestrator.remove(&id, force).await
HttpRemove(r, force, cleanup) ==
  /\ http.reqs[r].handler = "remove_agent"
  /\ http.reqs[r].pc = "locked" /\ http.reqs[r].todo # <<>>
  /\ Remove(Head(http.reqs[r].todo), force, cleanup)
  /\ Called(r)

\* orchestrator.list().iter().map(AgentResponse::from): the id and status
\* of every agent of the registry
list_response(st) ==
  [i \in 1..Len(st.agents) |->
     [id |-> st.agents[i].id, status |-> st.agents[i].status]]

\* the handler has made its calls: it builds its response (list_agents:
\* list_response(state)) and returns, and the guard is dropped
HttpRespond(r) ==
  /\ http.reqs[r].pc = "locked"
  /\ http.reqs[r].todo = <<>>
  /\ last = Idle
  /\ http' = [http EXCEPT !.holder = None, !.reqs[r] = NoRequest]
  /\ UNCHANGED <<state, disk, env, last, hist, other, pure>>

InitHttp ==
  /\ state = [ state_dir |-> StateDir,
               next_id |-> MaxId + 1,
               agents  |-> [k \in 1..MaxId |->
                             NewAgent(DecStr(k), AutoBranch(DecStr(k)), CurrentBranch)] ]
  /\ disk = save(state)
  /\ windows = Ids
  /\ status_files = [i \in Ids |-> "absent"]
  /\ prompt_files = Ids
  /\ worktrees = Ids
  /\ branches = {"main", "feat"} \cup {AutoBranch(i) : i \in Ids}
  /\ head = CurrentBranch
  /\ last = Idle
  /\ hist = [initial_next_id |-> MaxId + 1, calls |-> 0, loaded |-> 0,
             issued |-> <<>>, failed |-> FALSE]
  /\ other = [st |-> state, saver |-> "none"]
  /\ http = NoHttp
  /\ pure = NoCall

NextHttp ==
  \/ \E r \in Requests : HttpArrive(r)
  \/ \E r \in Requests, h \in Handlers, id \in Ids : HttpLock(r, h, id)
  \/ \E r \in Requests : HttpCheckStatus(r)
  \/ \E r \in Requests, s \in MergeStrategy, force \in BOOLEAN,
        o \in {"checkout_failed", "ok", "conflict", "failed", "failed_on_branch"},
        c \in CleanupOutcomes :
       HttpMerge(r, s, force, o, c)
  \/ \E r \in Requests, force \in BOOLEAN, c \in CleanupOutcomes : HttpRemove(r, force, c)
  \/ \E r \in Requests : HttpRespond(r)
  \/ \E id \in Ids, c \in StatusFileContents : AgentWritesStatus(id, c) /\ UNCHANGED aux
  \/ \E id \in Ids : WindowExits(id) /\ UNCHANGED aux
  \/ Return /\ UNCHANGED aux

SpecHttp == InitHttp /\ [][NextHttp]_vars

\* ------------------------------------------------------------------------
\* Two processes over one repository (a `wta` command next to the dashboard,
\* or two commands): each has loaded its own State, both write the same
\* state.json, and nothing coordinates them.  `state` is the State of the
\* process that runs, `other.st` that of the process that does not.
\* ------------------------------------------------------------------------

\* the scheduler lets the other process run
Switch ==
  /\ last = Idle
  /\ state' = other.st
  /\ other' = [st |-> state,
               saver |-> CASE other.saver = "this"  -> "other"
                           [] other.saver = "other" -> "this"
                           [] OTHER                 -> "none"]
  /\ UNCHANGED <<disk, env, last, hist, http, pure>>

\* the running process has made a call; it is the last writer if the call
\* saved
Ran ==
  /\ other' = [other EXCEPT !.saver = IF last'.saved THEN "this" ELSE @]
  /\ UNCHANGED <<http, pure>>

\* the launches of this specification fail, if they do, at the tmux session
NextProcs ==
  \/ \E base \in {None, CurrentBranch}, f \in {"none", "session"} :
       Launch(None, base, f) /\ Ran
  \/ \E id \in Ids : CheckStatus(id) /\ Ran
  \/ \E id \in Ids, force \in BOOLEAN, c \in CleanupOutcomes : Remove(id, force, c) /\ Ran
  \/ \E id \in Ids, c \in StatusFileContents : AgentWritesStatus(id, c) /\ UNCHANGED aux
  \/ \E id \in Ids : WindowExits(id) /\ UNCHANGED aux
  \/ Restart /\ UNCHANGED aux
  \/ Return /\ UNCHANGED aux
  \/ Switch

SpecProcs == Init /\ [][NextProcs]_vars

\* ------------------------------------------------------------------------
\* State::save and State::load_or_create on their own: a process holds any
\* registry the orchestrator can have built with up to MaxId launches, in
\* one of two state directories, and state.json is absent, or a document
\* written by save, or a file that is not a registry document.
\* ------------------------------------------------------------------------
StoreDirs == {StateDir, "/elsewhere/.worktree-agents"}

\* status and completed_at as the orchestrator leaves them: Running and
\* unfinished, Completed or Failed and stamped, Merged and stamped or, after
\* a forced merge of a running agent, not stamped
StoreAgentStates ==
  { <<"Running", None>>, <<"Completed", "Some">>, <<"Failed", "Some">>,
    <<"Merged", "Some">>, <<"Merged", None>> }

\* the registries: a counter, and agents with increasing ids below it
StoreRegistries ==
  UNION { UNION { { [next_id |-> n,
                     agents  |-> [k \in 1..Len(ids) |->
                        [NewAgent(DecStr(ids[k]), AutoBranch(DecStr(ids[k])), CurrentBranch)
                           EXCEPT !.status = sts[k][1], !.completed_at = sts[k][2]]]]
                    : sts \in [1..Len(ids) -> StoreAgentStates] }
                  : ids \in {q \in UNION {[1..m -> 1..(n - 1)] : m \in 0..(n - 1)} :
                               \A i, j \in 1..Len(q) : i < j => q[i] < q[j]} }
          : n \in 1..(MaxId + 1) }

StoreStates ==
  { [state_dir |-> d, next_id |-> reg.next_id, agents |-> reg.agents]
      : d \in StoreDirs, reg \in StoreRegistries }

\* files that are not a registry document: not JSON at all (empty, cut
\* short), a counter that is no u64, a status that is no variant of
\* AgentStatus, a completed_at that is no timestamp
StoreBrokenFiles ==
  { [exists |-> TRUE, syntax |-> "garbage", next_id |-> 0, agents |-> <<>>],
    [exists |-> TRUE, syntax |-> "json", next_id |-> -1, agents |-> <<>>],
    [exists |-> TRUE, syntax |-> "json", next_id |-> 2,
     agents |-> <<[serialize_agent(NewAgent("1", "wta/1", "main"))
                     EXCEPT !.status = "conflict"]>>],
    [exists |-> TRUE, syntax |-> "json", next_id |-> 2,
     agents |-> <<[serialize_agent(NewAgent("1", "wta/1", "main"))
                     EXCEPT !.status = "Running"]>>],
    [exists |-> TRUE, syntax |-> "json", next_id |-> 2,
     agents |-> <<[serialize_agent(NewAgent("1", "wta/1", "main"))
                     EXCEPT !.completed_at = "yesterday"]>>] }

StoreFiles ==
  {NoFile} \cup {save(st) : st \in {t \in StoreStates : t.state_dir = StateDir}}
           \cup StoreBrokenFiles

InitStore ==
  /\ state \in StoreStates
  /\ disk \in StoreFiles
  /\ windows = {}
  /\ status_files = [i \in Ids |-> "absent"]
  /\ prompt_files = {}
  /\ worktrees = {}
  /\ branches = {"main", "feat"}
  /\ head = CurrentBranch
  /\ last = Idle
  /\ hist = [initial_next_id |-> 1, calls |-> 0, loaded |-> 0,
             issued |-> <<>>, failed |-> FALSE]
  /\ other = [st |-> state, saver |-> "none"]
  /\ http = NoHttp
  /\ pure = NoCall

\* self.save()
Save ==
  /\ last = Idle
  /\ disk' = save(state)
  /\ last' = Outcome("save", state.state_dir, TRUE, "-", TRUE)
  /\ UNCHANGED <<state, env, hist, aux>>

\* State::load_or_create(dir), by a new process or right after a save; on
\* Ok the process holds the State returned
Load(dir) ==
  LET r == load_or_create(dir, disk) IN
  /\ last.op \in {"idle", "save"}
  /\ state' = IF r.ok THEN r.st ELSE state
  /\ last' = [Outcome("load_or_create", dir, r.ok,
                      IF r.ok THEN "-" ELSE r.err, FALSE)
                EXCEPT !.via = last.op]
  /\ UNCHANGED <<disk, env, hist, aux>>

NextStore ==
  \/ Save
  \/ \E dir \in StoreDirs : Load(dir)
  \/ Return /\ UNCHANGED aux

SpecStore == InitStore /\ [][NextStore]_vars

\* ------------------------------------------------------------------------
\* Pure helpers: truncate_task (cli/mod.rs) and Provider::build_command
\* for Claude (provider/mod.rs).  A task is a sequence of characters, each
\* with its UTF-8 width, because the code measures and cuts in bytes.
\* ------------------------------------------------------------------------

TaskMaxChars == 4
MaxLenArg == 6

\* "a" and "." take one byte, U+00E9 two, U+4E16 three
TaskChars == {"a", ".", "U+00E9", "U+4E16"}

len_utf8(c) == IF c = "U+00E9" THEN 2 ELSE IF c = "U+4E16" THEN 3 ELSE 1

\* str::len(): the length in bytes
RECURSIVE len(_)
len(s) == IF s = <<>> THEN 0 ELSE len_utf8(Head(s)) + len(Tail(s))

\* the length a reader counts: every character is one
len_chars(s) == Len(s)

\* str::is_char_boundary(k)
is_char_boundary(s, k) == \E i \in 0..Len(s) : len(SubSeq(s, 1, i)) = k

\* &s[..k] for a k on a character boundary
slice_to(s, k) == SubSeq(s, 1, CHOOSE i \in 0..Len(s) : len(SubSeq(s, 1, i)) = k)

saturating_sub(a, b) == IF a > b THEN a - b ELSE 0

Ellipsis == <<".", ".", ".">>

Returned(out) == [panicked |-> FALSE, out |-> out]
Panicked == [panicked |-> TRUE, out |-> <<>>]

\* the slice &task[..n] panics when byte n is inside a character
truncate_task(task, max_len) ==
  IF len(task) > max_len
    THEN LET cut == saturating_sub(max_len, 3)
         IN  IF is_char_boundary(task, cut)
               THEN Returned(slice_to(task, cut) \o Ellipsis)
               ELSE Panicked
    ELSE Returned(task)

Tasks == UNION {[1..n -> TaskChars] : n \in 0..TaskMaxChars}

TruncateCalls ==
  {[fn |-> "truncate_task", task |-> t, max_len |-> n,
    returned |-> FALSE, panicked |-> FALSE, out |-> <<>>] :
     t \in Tasks, n \in 0..MaxLenArg}

TruncateTask ==
  /\ pure.fn = "truncate_task"
  /\ ~pure.returned
  /\ ~pure.panicked
  /\ LET r == truncate_task(pure.task, pure.max_len)
     IN  pure' = [pure EXCEPT !.returned = ~r.panicked,
                              !.panicked = r.panicked,
                              !.out = r.out]
  /\ UNCHANGED <<state, disk, env, last, hist, other, http>>

\* A path is the sequence of the components of an absolute path.
Root == <<>>

\* [String]::join(sep)
RECURSIVE join(_, _)
join(args, sep) ==
  IF args = <<>> THEN ""
  ELSE IF Len(args) = 1 THEN args[1]
  ELSE args[1] \o sep \o join(Tail(args), sep)

\* Path::display()
display(path) == "/" \o join(path, "/")

\* Path::parent(): None for the root
parent(path) == IF path = Root THEN None ELSE SubSeq(path, 1, Len(path) - 1)

\* [String]::contains
contains(args, x) == \E i \in 1..Len(args) : args[i] = x

DangerouslyAllowAll == "--dangerously-allow-all"

default_allowed_tools ==
  << "Bash(cargo check:*)", "Bash(cargo build:*)", "Bash(cargo test:*)",
     "Bash(cargo fmt:*)", "Bash(cargo clippy:*)", "Bash(git diff:*)",
     "Bash(git status:*)", "Bash(git log:*)", "Bash(git branch:*)",
     "Bash(git add:*)", "Bash(git commit:*)", "Bash(ls:*)", "Bash(pwd)" >>

extra_args_str(extra_args) ==
  IF extra_args = <<>> THEN "" ELSE " " \o join(extra_args, " ")

build_claude_command(worktree_path, prompt_file, status_file, extra_args) ==
  IF contains(extra_args, DangerouslyAllowAll)
    THEN "cd " \o display(worktree_path) \o " && cat " \o display(prompt_file)
           \o " | claude --dangerously-allow-all" \o extra_args_str(extra_args)
    ELSE LET status_dir == IF parent(status_file) = None THEN ""
                           ELSE display(parent(status_file))
             status_file_pattern == "Write(" \o status_dir \o "/*)"
             allowed_tools_arg ==
               "--allowedTools '" \o join(default_allowed_tools, ",") \o ","
                 \o status_file_pattern \o "'"
         IN  "cd " \o display(worktree_path) \o " && cat " \o display(prompt_file)
               \o " | claude --permission-mode acceptEdits " \o allowed_tools_arg
               \o extra_args_str(extra_args)

CommandPaths == {<<"repo", ".worktrees", "1">>, <<"tmp", "wt">>}
PromptPaths == {<<"repo", ".worktree-agents", "prompts", "1.md">>, <<"tmp", "prompt.txt">>}
StatusPaths == {Root, <<"agent.json">>, <<"tmp", "status", "agent.json">>}
ExtraArgs == {"--verbose", DangerouslyAllowAll}
ExtraArgLists == UNION {[1..n -> ExtraArgs] : n \in 0..2}

CommandCalls ==
  {[fn |-> "build_claude_command", worktree_path |-> w, prompt_file |-> p,
    status_file |-> f, extra_args |-> x, returned |-> FALSE, out |-> ""] :
     w \in CommandPaths, p \in PromptPaths, f \in StatusPaths, x \in ExtraArgLists}

BuildClaudeCommand ==
  /\ pure.fn = "build_claude_command"
  /\ ~pure.returned
  /\ pure' = [pure EXCEPT !.returned = TRUE,
                          !.out = build_claude_command(pure.worktree_path, pure.prompt_file,
                                                       pure.status_file, pure.extra_args)]
  /\ UNCHANGED <<state, disk, env, last, hist, other, http>>

\* WorktreeManager::list: the lines of `git worktree list --porcelain`, each
\* line as the prefix the parser looks for and the rest of the line.
PorcelainLines ==
  {[prefix |-> "worktree ", rest |-> p] : p \in {"/repo", "/repo/.worktrees/1"}}
    \cup {[prefix |-> "branch refs/heads/", rest |-> b] : b \in {"main", "wta/1"}}
    \cup {[prefix |-> "HEAD ", rest |-> "abc123"], [prefix |-> "", rest |-> ""]}

MaxLines == 5

\* str::strip_prefix
strip_prefix(line, prefix) == IF line.prefix = prefix THEN line.rest ELSE None

\* the loop body with the pair taken only when both halves are there
parse_line_lazy_take(acc, line) ==
  IF strip_prefix(line, "worktree ") # None
    THEN IF acc.current_path # None /\ acc.current_branch # None
           THEN [worktrees |-> Append(acc.worktrees,
                                      [path |-> acc.current_path, branch |-> acc.current_branch]),
                 current_path |-> strip_prefix(line, "worktree "),
                 current_branch |-> None]
           ELSE [acc EXCEPT !.current_path = strip_prefix(line, "worktree ")]
    ELSE IF strip_prefix(line, "branch refs/heads/") # None
    THEN [acc EXCEPT !.current_branch = strip_prefix(line, "branch refs/heads/")]
    ELSE acc

\* the body of `for line in stdout.lines()`; take() empties both halves
\* whether or not a pair is pushed
parse_line(acc, line) ==
  IF strip_prefix(line, "worktree ") # None
    THEN [worktrees |-> IF acc.current_path # None /\ acc.current_branch # None
                          THEN Append(acc.worktrees,
                                      [path |-> acc.current_path, branch |-> acc.current_branch])
                          ELSE acc.worktrees,
          current_path |-> strip_prefix(line, "worktree "),
          current_branch |-> None]
    ELSE IF strip_prefix(line, "branch refs/heads/") # None
    THEN [acc EXCEPT !.current_branch = strip_prefix(line, "branch refs/heads/")]
    ELSE acc

RECURSIVE parse_lines(_, _)
parse_lines(acc, lines) ==
  IF lines = <<>> THEN acc ELSE parse_lines(parse_line(acc, Head(lines)), Tail(lines))

\* WorktreeManager::list on the output of a git that succeeded
list_worktrees(stdout) ==
  LET acc == parse_lines([worktrees |-> <<>>, current_path |-> None, current_branch |-> None],
                         stdout)
  IN  IF acc.current_path # None /\ acc.current_branch # None
        THEN Append(acc.worktrees, [path |-> acc.current_path, branch |-> acc.current_branch])
        ELSE acc.worktrees

ListCalls ==
  {[fn |-> "list", stdout |-> l, returned |-> FALSE, out |-> <<>>] :
     l \in UNION {[1..n -> PorcelainLines] : n \in 0..MaxLines}}

ListWorktrees ==
  /\ pure.fn = "list"
  /\ ~pure.returned
  /\ pure' = [pure EXCEPT !.returned = TRUE, !.out = list_worktrees(pure.stdout)]
  /\ UNCHANGED <<state, disk, env, last, hist, other, http>>

InitPure ==
  /\ state = load_or_create(StateDir, NoFile).st
  /\ disk = NoFile
  /\ other = [st |-> load_or_create(StateDir, NoFile).st, saver |-> "none"]
  /\ http = NoHttp
  /\ pure \in TruncateCalls \cup CommandCalls \cup ListCalls
  /\ windows = {}
  /\ status_files = [i \in Ids |-> "absent"]
  /\ prompt_files = {}
  /\ worktrees = {}
  /\ branches = {"main", "feat"}
  /\ head = CurrentBranch
  /\ last = Idle
  /\ hist = [initial_next_id |-> 1, calls |-> 0, loaded |-> 0,
             issued |-> <<>>, failed |-> FALSE]

NextPure ==
  \/ TruncateTask
  \/ BuildClaudeCommand
  \/ ListWorktrees

SpecPure == InitPure /\ [][NextPure]_vars

\* ------------------------------------------------------------------------
\* Orchestrator::launch, one numbered step of the code at a time.  pure holds
\* the frame of the call: the step it is at, what launch(..) computes for
\* the request, the steps done, the windows the provider command was sent
\* to, and for each window made the worktree it was created in.
\* ------------------------------------------------------------------------

\* the order with the command sent before the prompt file is written
launch_steps_send_first ==
  <<"next_id", "worktree", "create_window", "send_keys", "prompt_file", "add_agent">>

\* steps 1, 2, 7, 10, 12 and 13 of launch, in the order of the code
launch_steps ==
  <<"next_id", "worktree", "create_window", "prompt_file", "send_keys", "add_agent">>

StepAfter(step) ==
  LET i == CHOOSE k \in 1..Len(launch_steps) : launch_steps[k] = step
  IN  IF i = Len(launch_steps) THEN "idle" ELSE launch_steps[i + 1]

NoLaunch ==
  [fn |-> "launch", pc |-> "idle", r |-> None, fail |-> "none", req |-> <<"-", "-">>,
   done |-> <<>>, sent |-> {}, cwd |-> {}]

At(step) == pure.fn = "launch" /\ pure.pc = step

\* the step is done and the call goes on to the next one
Advance(step) ==
  [pure EXCEPT !.pc = StepAfter(step), !.done = Append(@, step)]

\* a `?` returns the error of the step
LaunchFails ==
  /\ pure' = [pure EXCEPT !.pc = "idle"]
  /\ last' = [Outcome("launch", pure.r.id, FALSE, pure.r.err, FALSE)
                EXCEPT !.req = pure.req, !.via = pure.r.via]

\* let id = AgentId(self.state.next_id().to_string())
LaunchNextId(req_branch, req_base, fail) ==
  /\ last = Idle
  /\ At("idle")
  /\ state.next_id <= MaxId
  /\ Len(state.agents) < MaxId
  /\ fail = "probe" => req_branch # None
  /\ state' = next_id(state).st
  /\ pure' = [pure EXCEPT !.pc = StepAfter("next_id"), !.done = <<"next_id">>,
                          !.r = launch(req_branch, req_base, fail),
                          !.fail = fail, !.req = <<req_branch, req_base>>]
  /\ UNCHANGED <<disk, env, last, hist, other, http>>

\* branch_exists, then checkout_existing or create
LaunchWorktree ==
  /\ At("worktree")
  /\ IF pure.r.made_wt
       THEN /\ worktrees' = worktrees \cup {pure.r.id}
            /\ branches' = branches \cup {pure.r.branch}
            /\ pure' = Advance("worktree")
            /\ UNCHANGED last
       ELSE /\ LaunchFails
            /\ UNCHANGED <<worktrees, branches>>
  /\ UNCHANGED <<state, disk, windows, status_files, prompt_files, head, hist, other, http>>

\* ensure_session, then create_window(&id.0, &worktree_path)
LaunchCreateWindow ==
  /\ At("create_window")
  /\ IF pure.fail \notin {"session", "window"}
       THEN /\ windows' = windows \cup {pure.r.id}
            /\ pure' = [Advance("create_window") EXCEPT
                          !.cwd = @ \cup {<<pure.r.id, pure.r.id>>}]
            /\ UNCHANGED last
       ELSE /\ LaunchFails
            /\ UNCHANGED windows
  /\ UNCHANGED <<state, disk, status_files, prompt_files, worktrees, branches, head,
                 hist, other, http>>

\* create_dir_all(prompts_dir), then fs::write(&prompt_file, ..)
LaunchPromptFile ==
  /\ At("prompt_file")
  /\ IF pure.fail # "prompt"
       THEN /\ prompt_files' = prompt_files \cup {pure.r.id}
            /\ pure' = Advance("prompt_file")
            /\ UNCHANGED last
       ELSE /\ LaunchFails
            /\ UNCHANGED prompt_files
  /\ UNCHANGED <<state, disk, windows, status_files, worktrees, branches, head,
                 hist, other, http>>

\* build_command, then send_keys(&id.0, &provider_cmd)
LaunchSendKeys ==
  /\ At("send_keys")
  /\ IF pure.fail # "send_keys"
       THEN /\ pure' = [Advance("send_keys") EXCEPT !.sent = @ \cup {pure.r.id}]
            /\ UNCHANGED last
       ELSE LaunchFails
  /\ UNCHANGED <<state, disk, env, hist, other, http>>

\* Agent::new, self.state.add_agent(agent)?, Ok(id)
LaunchAddAgent ==
  /\ At("add_agent")
  /\ state' = add_agent(state, get_agent(pure.r.st, pure.r.id))
  /\ disk' = save(state')
  /\ pure' = Advance("add_agent")
  /\ last' = [Outcome("launch", pure.r.id, TRUE, pure.r.id, TRUE)
                EXCEPT !.req = pure.req, !.via = pure.r.via]
  /\ UNCHANGED <<env, hist, other, http>>

InitLaunch ==
  /\ state = load_or_create(StateDir, NoFile).st
  /\ disk = NoFile
  /\ other = [st |-> load_or_create(StateDir, NoFile).st, saver |-> "none"]
  /\ http = NoHttp
  /\ pure = NoLaunch
  /\ windows = {}
  /\ status_files = [i \in Ids |-> "absent"]
  /\ prompt_files = {}
  /\ worktrees = {}
  /\ branches = {"main", "feat"}
  /\ head = CurrentBranch
  /\ last = Idle
  /\ hist = [initial_next_id |-> 1, calls |-> 0, loaded |-> 0,
             issued |-> <<>>, failed |-> FALSE]

NextLaunch ==
  \/ \E b \in {None} \cup UserBranches, base \in {None, CurrentBranch}, f \in LaunchFailures :
       LaunchNextId(b, base, f)
  \/ LaunchWorktree
  \/ LaunchCreateWindow
  \/ LaunchPromptFile
  \/ LaunchSendKeys
  \/ LaunchAddAgent
  \/ Return /\ UNCHANGED aux

SpecLaunch == InitLaunch /\ [][NextLaunch]_vars

\* ------------------------------------------------------------------------
\* WorktreeManager (git/worktree.rs) called on its own, as the orchestrator
\* and `wta worktree add/remove` call it.  pure holds the directories that
\* exist, the local branches, and the last call with what it returned.  A
\* path is absolute or relative and has its components.
\* ------------------------------------------------------------------------
Rel(parts) == [abs |-> FALSE, parts |-> parts]
Abs(parts) == [abs |-> TRUE, parts |-> parts]

worktrees_dir == Abs(<<"repo", ".worktrees">>)

\* join that nests an absolute path too
path_join_nested(base, path) == [abs |-> base.abs, parts |-> base.parts \o path.parts]

\* Path::join: an absolute path replaces the base
path_join(base, path) ==
  IF path.abs THEN path ELSE [abs |-> base.abs, parts |-> base.parts \o path.parts]

\* the ids of agents, and a --path given to `wta worktree add`
ManagerIds == {Rel(<<"1">>), Rel(<<"2">>), Abs(<<"tmp", "x">>)}
ManagerBranches == {"main", "feat", "wta/1"}

\* how the git command ends when it is run: it succeeds, it fails saying
\* that the branch already exists, or it fails otherwise
GitOutcomes == {"ok", "already exists", "failed"}

ManagerResult(err, ran_git, paths, brs) ==
  [err |-> err, ran_git |-> ran_git, paths |-> paths, branches |-> brs]

\* WorktreeManager::checkout_existing
checkout_existing(paths, brs, id, branch, git) ==
  LET worktree_path == path_join(worktrees_dir, id) IN
  IF worktree_path \in paths
    THEN ManagerResult("WorktreeAlreadyExists", FALSE, paths, brs)
  ELSE IF git # "ok"
    THEN ManagerResult("CommandFailed", TRUE, paths, brs)
  ELSE ManagerResult(None, TRUE, paths \cup {worktree_path}, brs)

\* WorktreeManager::create
create(paths, brs, id, branch, base, git) ==
  LET worktree_path == path_join(worktrees_dir, id) IN
  IF worktree_path \in paths
    THEN ManagerResult("WorktreeAlreadyExists", FALSE, paths, brs)
  ELSE IF git = "already exists"
    THEN ManagerResult("BranchAlreadyExists", TRUE, paths, brs)
  ELSE IF git # "ok"
    THEN ManagerResult("CommandFailed", TRUE, paths, brs)
  ELSE ManagerResult(None, TRUE, paths \cup {worktree_path}, brs \cup {branch})

\* WorktreeManager::remove
remove(paths, brs, id, git) ==
  LET worktree_path == path_join(worktrees_dir, id) IN
  IF worktree_path \notin paths
    THEN ManagerResult("WorktreeNotFound", FALSE, paths, brs)
  ELSE IF git # "ok"
    THEN ManagerResult("CommandFailed", TRUE, paths, brs)
  ELSE ManagerResult(None, TRUE, paths \ {worktree_path}, brs)

\* what git can do with the command it is given
GitCan(op, brs, branch, base, git) ==
  CASE op = "create" ->
         IF branch \in brs THEN git = "already exists"
         ELSE IF base \notin brs THEN git = "failed"
         ELSE git \in {"ok", "failed"}
    [] op = "checkout_existing" ->
         IF branch \in brs THEN git \in {"ok", "failed"} ELSE git = "failed"
    [] OTHER -> git \in {"ok", "failed"}

NoManagerCall ==
  [op |-> "-", id |-> Rel(<<>>), branch |-> "-", git |-> "-", err |-> None,
   ran_git |-> FALSE, paths |-> {}, branches |-> {}]

ManagerCalls(op, id, branch, git, r) ==
  [pure EXCEPT !.paths = r.paths, !.branches = r.branches,
               !.call = [op |-> op, id |-> id, branch |-> branch, git |-> git,
                         err |-> r.err, ran_git |-> r.ran_git,
                         paths |-> pure.paths, branches |-> pure.branches]]

ManagerCreate(id, branch, base, git) ==
  /\ pure.fn = "worktree_manager"
  /\ GitCan("create", pure.branches, branch, base, git)
  /\ pure' = ManagerCalls("create", id, branch, git,
                    create(pure.paths, pure.branches, id, branch, base, git))
  /\ UNCHANGED <<state, disk, env, last, hist, other, http>>

ManagerCheckoutExisting(id, branch, git) ==
  /\ pure.fn = "worktree_manager"
  /\ GitCan("checkout_existing", pure.branches, branch, None, git)
  /\ pure' = ManagerCalls("checkout_existing", id, branch, git,
                    checkout_existing(pure.paths, pure.branches, id, branch, git))
  /\ UNCHANGED <<state, disk, env, last, hist, other, http>>

ManagerRemove(id, git) ==
  /\ pure.fn = "worktree_manager"
  /\ GitCan("remove", pure.branches, None, None, git)
  /\ pure' = ManagerCalls("remove", id, "-", git, remove(pure.paths, pure.branches, id, git))
  /\ UNCHANGED <<state, disk, env, last, hist, other, http>>

InitManager ==
  /\ state = load_or_create(StateDir, NoFile).st
  /\ disk = NoFile
  /\ other = [st |-> load_or_create(StateDir, NoFile).st, saver |-> "none"]
  /\ http = NoHttp
  /\ pure = [fn |-> "worktree_manager", paths |-> {}, branches |-> {"main", "feat"},
             call |-> NoManagerCall]
  /\ windows = {}
  /\ status_files = [i \in Ids |-> "absent"]
  /\ prompt_files = {}
  /\ worktrees = {}
  /\ branches = {"main", "feat"}
  /\ head = CurrentBranch
  /\ last = Idle
  /\ hist = [initial_next_id |-> 1, calls |-> 0, loaded |-> 0,
             issued |-> <<>>, failed |-> FALSE]

NextManager ==
  \/ \E id \in ManagerIds, b \in ManagerBranches, base \in {"main", "gone"}, g \in GitOutcomes :
       ManagerCreate(id, b, base, g)
  \/ \E id \in ManagerIds, b \in ManagerBranches, g \in GitOutcomes :
       ManagerCheckoutExisting(id, b, g)
  \/ \E id \in ManagerIds, g \in GitOutcomes : ManagerRemove(id, g)

SpecManager == InitManager /\ [][NextManager]_vars

\* ------------------------------------------------------------------------
\* Reconciliation under repeated calls: agents are launched, their providers
\* write status files and their windows go away, and the caller keeps
\* calling check_status for every id and takes every result.
\* ------------------------------------------------------------------------
NextPolling ==
  \/ \E f \in {"none", "send_keys"} : Launch(None, None, f) /\ UNCHANGED aux
  \/ \E id \in Ids : CheckStatus(id) /\ UNCHANGED aux
  \/ \E id \in Ids, c \in StatusFileContents : AgentWritesStatus(id, c) /\ UNCHANGED aux
  \/ \E id \in Ids : WindowExits(id) /\ UNCHANGED aux
  \/ Return /\ UNCHANGED aux

SpecPolling ==
  /\ Init
  /\ [][NextPolling]_vars
  /\ WF_vars(Return /\ UNCHANGED aux)
  /\ \A id \in Ids : SF_vars(CheckStatus(id) /\ UNCHANGED aux)

\* ========================================================================
\* Properties
\* ========================================================================
StatusOf(st, id) == get_agent(st, id).status

CompletedAtOf(st, id) == get_agent(st, id).completed_at

Terminal == {"Completed", "Failed", "Merged"}

\* the step is a call of check_status(id)
IsCheckStatus(id) == last = Idle /\ last'.op = "check_status" /\ last'.id = id

\* the registry document written by the step is the whole in-memory registry
SavedNow ==
  /\ last'.saved
  /\ disk'.exists
  /\ load_or_create(state'.state_dir, disk') = Loaded(TRUE, None, state')

\* the step wrote nothing to the registry, in memory or on disk
RegistryUntouched == state' = state /\ disk' = disk /\ ~last'.saved

\* ---- C1 ----------------------------------------------------------------
\* C1 as stated: in every step an agent that stays in the registry keeps its
\* status or moves along one of Running -> Completed, Running -> Failed,
\* Completed -> Merged, Failed -> Merged.
C1_Edges ==
  { <<"Running", "Completed">>, <<"Running", "Failed">>,
    <<"Completed", "Merged">>, <<"Failed", "Merged">> }

C1_OnlyLifecycleEdges ==
  [][\A id \in Ids :
       HasAgent(state, id) /\ HasAgent(state', id) =>
         \/ StatusOf(state', id) = StatusOf(state, id)
         \/ <<StatusOf(state, id), StatusOf(state', id)>> \in C1_Edges]_vars

\* C1 amended: the only other edge is Running -> Merged, taken by a
\* successful merge called with force = true and by nothing else; an agent
\* enters the registry as Running; no edge leads back to Running, none joins
\* Completed and Failed, none leaves Merged.
C1_LifecycleEdgesOrForcedMerge ==
  [][\A id \in Ids :
       /\ HasAgent(state, id) /\ HasAgent(state', id) =>
            \/ StatusOf(state', id) = StatusOf(state, id)
            \/ <<StatusOf(state, id), StatusOf(state', id)>> \in C1_Edges
            \/ /\ StatusOf(state, id) = "Running"
               /\ StatusOf(state', id) = "Merged"
               /\ last'.op = "merge" /\ last'.id = id /\ last'.force /\ last'.ok
       /\ ~HasAgent(state, id) /\ HasAgent(state', id) =>
            StatusOf(state', id) = "Running"]_vars

\* an agent has gone Running -> Completed/Failed -> Merged
C1_Witness ==
  \E id \in Ids :
    /\ last.op = "merge" /\ last.id = id /\ last.ok /\ ~last.force
    /\ HasAgent(state, id)
    /\ StatusOf(state, id) = "Merged"
    /\ CompletedAtOf(state, id) # None

\* ---- C2 ----------------------------------------------------------------
\* C2: after every step each agent has completed_at set iff its status is not
\* Running, and a step that takes an agent out of Running stamps completed_at.
C2_CompletedAtIffTerminal ==
  [][\A id \in Ids :
       /\ HasAgent(state', id) =>
            (CompletedAtOf(state', id) # None <=> StatusOf(state', id) # "Running")
       /\ ( /\ HasAgent(state, id) /\ HasAgent(state', id)
            /\ StatusOf(state, id) = "Running"
            /\ StatusOf(state', id) # "Running" )
          => CompletedAtOf(state', id) # None]_vars

\* ---- C3 ----------------------------------------------------------------
WellFormedIds(reg) ==
  /\ \A i \in 1..Len(reg.agents) :
       \E k \in 1..(reg.next_id - 1) : reg.agents[i].id = DecStr(k)
  /\ \A i, j \in 1..Len(reg.agents) :
       i # j => reg.agents[i].id # reg.agents[j].id

\* C3: in memory and in state.json, every agent's id is the decimal rendering
\* of an integer in 1 .. next_id - 1, and no two agents share an id.
C3_IdsBelowCounterAndUnique ==
  /\ WellFormedIds(state)
  /\ disk.exists => WellFormedIds(disk)

\* a registry of two agents, the second launched by a process that loaded
\* the first from state.json
C3_Witness ==
  /\ Len(state.agents) = 2
  /\ hist.loaded = 1
  /\ Len(hist.issued) = 2

\* ---- C4 ----------------------------------------------------------------
\* the ids returned by the launches of the running process
IssuedHere == SubSeq(hist.issued, hist.loaded + 1, Len(hist.issued))

\* C4: after N launch calls on one State the counter is the initial counter
\* plus N (a launch that fails has advanced it too), and the ids returned by
\* those launches are pairwise distinct.
C4_CounterAdvancesByLaunches ==
  /\ state.next_id = hist.initial_next_id + hist.calls
  /\ \A i, j \in 1..Len(IssuedHere) : i # j => IssuedHere[i] # IssuedHere[j]

C4_Witness ==
  /\ hist.calls = 2
  /\ Len(IssuedHere) = 2
  /\ state.next_id = 3

\* ---- C5 ----------------------------------------------------------------
\* C5: no id is returned twice, ever; and as long as no launch has failed,
\* the k-th successful launch returns k and the counter of any process, also
\* one that has just loaded state.json, is k + 1 whatever has been removed or
\* pruned.
C5_IdsNeverReused ==
  /\ \A i, j \in 1..Len(hist.issued) : i # j => hist.issued[i] # hist.issued[j]
  /\ ~hist.failed =>
       /\ state.next_id = Len(hist.issued) + 1
       /\ \A k \in 1..Len(hist.issued) : hist.issued[k] = DecStr(k)

\* one launch, agent 1 removed, a restart, and the next launch returns "2"
C5_Witness ==
  /\ ~hist.failed
  /\ hist.loaded = 1
  /\ hist.issued = <<"1", "2">>
  /\ last.op = "launch" /\ last.ok /\ last.val = "2"
  /\ ~HasAgent(state, "1")

\* ---- C6 ----------------------------------------------------------------
\* C6: check_status on a Running agent whose status file says completed
\* (failed) makes it Completed (Failed), stamps completed_at, leaves no
\* window of the agent, saves, and returns the new status, whether or not
\* the window still existed.
C6_StatusFileDecides ==
  [][\A id \in Ids :
       ( /\ IsCheckStatus(id)
         /\ HasAgent(state, id)
         /\ StatusOf(state, id) = "Running"
         /\ status_files[id] \in {"completed", "failed"} )
       => LET new == IF status_files[id] = "completed" THEN "Completed" ELSE "Failed" IN
          /\ StatusOf(state', id) = new
          /\ CompletedAtOf(state', id) # None
          /\ id \notin windows'
          /\ SavedNow
          /\ last'.ok /\ last'.val = new]_vars

\* the file said completed and the window was already gone
C6_Witness ==
  /\ last.op = "check_status" /\ last.ok /\ last.val = "Completed"
  /\ last.pre.status = "Running"
  /\ last.pre.file = "completed"
  /\ ~last.pre.window

\* ---- C7 ----------------------------------------------------------------
\* C7: check_status on a Running agent without a status file: if the window
\* is gone the agent becomes Failed, completed_at is stamped and the registry
\* saved; if the window exists Running is returned and nothing is written.
C7_NoFileWindowProbe ==
  [][\A id \in Ids :
       ( /\ IsCheckStatus(id)
         /\ HasAgent(state, id)
         /\ StatusOf(state, id) = "Running"
         /\ status_files[id] = "absent" )
       => IF id \in windows
          THEN /\ last'.ok /\ last'.val = "Running"
               /\ RegistryUntouched
               /\ windows' = windows
          ELSE /\ last'.ok /\ last'.val = "Failed"
               /\ StatusOf(state', id) = "Failed"
               /\ CompletedAtOf(state', id) # None
               /\ SavedNow]_vars

C7_Witness ==
  /\ last.op = "check_status" /\ last.ok /\ last.val = "Failed"
  /\ last.pre.status = "Running"
  /\ last.pre.file = "absent"
  /\ ~last.pre.window
  /\ last.saved

\* ---- C8 ----------------------------------------------------------------
\* C8: a status file that is JSON but whose status is neither "completed" nor
\* "failed" leaves the agent Running: nothing is written, no window is
\* killed, Running is returned, with the window alive or gone.
C8_UnknownStatusLeavesRunning ==
  [][\A id \in Ids :
       ( /\ IsCheckStatus(id)
         /\ HasAgent(state, id)
         /\ StatusOf(state, id) = "Running"
         /\ status_files[id] = "unknown" )
       => /\ last'.ok /\ last'.val = "Running"
          /\ RegistryUntouched
          /\ windows' = windows]_vars

C8_Witness ==
  /\ last.op = "check_status" /\ last.ok /\ last.val = "Running"
  /\ last.pre.status = "Running"
  /\ last.pre.file = "unknown"
  /\ ~last.pre.window

\* ---- C9 ----------------------------------------------------------------
\* C9: with a status file that is not valid JSON, check_status returns no
\* error and decides by the window: Failed if it is gone, Running if alive.
C9_InvalidJsonFallsThrough ==
  [][\A id \in Ids :
       ( /\ IsCheckStatus(id)
         /\ HasAgent(state, id)
         /\ StatusOf(state, id) = "Running"
         /\ status_files[id] = "invalid" )
       => /\ last'.ok
          /\ StatusOf(state', id) = (IF id \in windows THEN "Running" ELSE "Failed")
          /\ last'.val = StatusOf(state', id)]_vars

\* ---- C10 ---------------------------------------------------------------
\* C10: check_status on an agent that is Completed, Failed or Merged returns
\* that status and changes nothing: registry, state.json, windows and status
\* files are what they were, whatever the status file holds.
C10_TerminalShortCircuit ==
  [][\A id \in Ids :
       ( /\ IsCheckStatus(id)
         /\ HasAgent(state, id)
         /\ StatusOf(state, id) \in Terminal )
       => /\ last'.ok /\ last'.val = StatusOf(state, id)
          /\ RegistryUntouched
          /\ UNCHANGED <<windows, status_files, prompt_files, worktrees, branches>>]_vars

\* a terminal agent whose status file would not even parse
C10_Witness ==
  /\ last.op = "check_status" /\ last.ok
  /\ last.pre.status \in Terminal
  /\ last.pre.file = "invalid"
  /\ last.val = last.pre.status

\* the step is a call of merge(id, ..)
IsMerge(id) == last = Idle /\ last'.op = "merge" /\ last'.id = id

\* the step is a call of remove(id, ..)
IsRemove(id) == last = Idle /\ last'.op = "remove" /\ last'.id = id

\* ---- C11 ---------------------------------------------------------------
\* C11: merge without force on an agent recorded as Running returns
\* AgentStillRunning, merge_branch is not called, and the registry (memory
\* and state.json), the main working tree, and the agent's worktree, branch,
\* window, prompt file and status file are what they were.
C11_RunningMergeRejected ==
  [][\A id \in Ids :
       ( /\ IsMerge(id) /\ ~last'.force
         /\ HasAgent(state, id)
         /\ StatusOf(state, id) = "Running" )
       => /\ ~last'.ok /\ last'.val = "AgentStillRunning"
          /\ last'.engine = "-"
          /\ state' = state /\ disk' = disk
          /\ UNCHANGED <<head, worktrees, branches, windows, prompt_files, status_files>>]_vars

\* rejected although the agent's status file already says completed
C11_Witness ==
  /\ last.op = "merge" /\ ~last.force /\ ~last.ok
  /\ last.val = "AgentStillRunning"
  /\ last.pre.status = "Running"
  /\ last.pre.file = "completed"
  /\ StatusOf(state, last.id) = "Running"

\* ---- C12 ---------------------------------------------------------------
\* C12: in every state, an agent that is Merged has no worktree directory
\* and its branch does not exist, unless that branch is a user branch that
\* existed before the launch and is the agent's base.
C12_MergedOwnsNothing ==
  \A id \in Ids :
    (HasAgent(state, id) /\ StatusOf(state, id) = "Merged")
    => /\ id \notin worktrees
       /\ \/ get_agent(state, id).branch \notin branches
          \/ /\ get_agent(state, id).branch \in UserBranches
             /\ get_agent(state, id).branch = get_agent(state, id).base_branch

\* ---- C13 ---------------------------------------------------------------
\* C13: when merge_branch ends in a conflict, under any strategy, merge
\* returns MergeConflict and the agent is as before: its record (status,
\* completed_at), its worktree, branch, prompt and status files, its window
\* and state.json are unchanged.
C13_ConflictLeavesAgent ==
  [][\A id \in Ids :
       (IsMerge(id) /\ last'.engine = "conflict")
       => /\ ~last'.ok /\ last'.val = "MergeConflict"
          /\ state' = state /\ disk' = disk
          /\ UNCHANGED <<worktrees, branches, windows, prompt_files, status_files>>]_vars

\* a conflict on a Completed agent, which is still Completed with its
\* worktree and branch
C13_Witness ==
  /\ last.op = "merge" /\ last.engine = "conflict" /\ last.val = "MergeConflict"
  /\ HasAgent(state, last.id)
  /\ StatusOf(state, last.id) = "Completed"
  /\ last.id \in worktrees
  /\ get_agent(state, last.id).branch \in branches

\* ---- C14 ---------------------------------------------------------------
\* C14: remove without force returns AgentStillRunning, with the entry and
\* the agent's resources in place, exactly when after the call's
\* reconciliation the agent is recorded Running and its window exists; when
\* the window is gone or the status is terminal the removal proceeds.
C14_RemoveRefusedIffTrulyRunning ==
  [][\A id \in Ids :
       (IsRemove(id) /\ ~last'.force /\ HasAgent(state, id))
       => /\ last'.val = "AgentStillRunning"
               <=> ( /\ HasAgent(state', id)
                     /\ StatusOf(state', id) = "Running"
                     /\ id \in windows' )
          /\ last'.val = "AgentStillRunning"
               => /\ state' = state /\ disk' = disk
                  /\ UNCHANGED <<windows, worktrees, branches, prompt_files, status_files>>
          /\ (id \notin windows \/ StatusOf(state, id) \in Terminal)
               => last'.ok /\ ~HasAgent(state', id)]_vars

\* ---- C15 ---------------------------------------------------------------
\* what every remove that proceeds does, whatever git answers: no window,
\* no prompt file, no status file, no entry for the id (a lookup gives
\* AgentNotFound); the counter is what it was; the other agents are the
\* same records in the same order; state.json is the in-memory registry.
RemoveFrame(id) ==
  /\ id \notin windows'
  /\ id \notin prompt_files'
  /\ status_files'[id] = "absent"
  /\ ~HasAgent(state', id)
  /\ state'.next_id = state.next_id
  /\ state'.agents = SelectSeq(state.agents, LAMBDA a : a.id # id)
  /\ SavedNow

\* C15 as stated: a remove that proceeds leaves no window, no worktree, no
\* branch, no prompt or status file and no entry of the agent, with the
\* counter and the other agents as they were, in memory and in state.json.
C15_RemoveErasesEverything ==
  [][\A id \in Ids :
       (IsRemove(id) /\ last'.ok)
       => /\ RemoveFrame(id)
          /\ id \notin worktrees'
          /\ get_agent(state, id).branch \notin branches']_vars

\* C15 amended: the worktree is gone unless `git worktree remove` failed,
\* and the branch is gone unless its deletion failed, which it always does
\* for the branch checked out in the main working tree; the rest as stated.
C15_RemoveErasesBestEffort ==
  [][\A id \in Ids :
       (IsRemove(id) /\ last'.ok)
       => /\ RemoveFrame(id)
          /\ last'.cleanup # "wt_fail" => id \notin worktrees'
          /\ (last'.cleanup = "ok" /\ get_agent(state, id).branch # head)
               => get_agent(state, id).branch \notin branches'
          /\ head' = head]_vars

\* agent 1 removed with every step succeeding, agent 2 still registered
C15_Witness ==
  /\ last.op = "remove" /\ last.ok /\ last.id = "1" /\ last.cleanup = "ok"
  /\ last.pre.worktree
  /\ "1" \notin worktrees
  /\ Len(state.agents) = 1 /\ state.agents[1].id = "2"
  /\ load_or_create(StateDir, disk).st.agents = state.agents

\* ---- C16 ---------------------------------------------------------------
\* remove(id, force) gets past check_status and past the AgentStillRunning
\* test
RemoveGetsPast(id, force) ==
  /\ HasAgent(state, id)
  /\ \/ StatusOf(state, id) # "Running"
     \/ status_files[id] \in {"completed", "failed"}
     \/ /\ status_files[id] \in {"absent", "unknown"}
        /\ force \/ id \notin windows

C17_Selected(filter, agent) ==
  \/ filter = "All"
  \/ filter = agent.status
  \/ filter = "Inactive" /\ agent.status \in {"Completed", "Failed", "Merged"}

\* C17: prune(filter) returns exactly the agents whose recorded status
\* matches the filter when it is called, nothing being reconciled first,
\* and erases exactly those: the registry afterwards is the agents that do
\* not match, unmodified and in their order, and so is state.json once
\* anything was erased.
C17_PruneErasesExactlyMatching ==
  [][(last = Idle /\ last'.op = "prune")
       => /\ last'.ok
          /\ last'.pruned = SelectSeq(state.agents, LAMBDA a : C17_Selected(last'.id, a))
          /\ state'.agents = SelectSeq(state.agents, LAMBDA a : ~C17_Selected(last'.id, a))
          /\ state'.next_id = state.next_id
          /\ last'.pruned # <<>> => disk' = save(state')
          /\ last'.pruned = <<>> => disk' = disk]_vars

\* {1: Running, 2: Completed, 3: Failed, 4: Merged}: Inactive returns 2, 3, 4
\* and retains 1
C17_Witness ==
  /\ last.op = "prune" /\ last.id = "Inactive"
  /\ Len(last.pruned) = 3
  /\ <<last.pruned[1].id, last.pruned[1].status>> = <<"2", "Completed">>
  /\ <<last.pruned[2].id, last.pruned[2].status>> = <<"3", "Failed">>
  /\ <<last.pruned[3].id, last.pruned[3].status>> = <<"4", "Merged">>
  /\ Len(state.agents) = 1
  /\ state.agents[1].id = "1" /\ state.agents[1].status = "Running"
  /\ load_or_create(StateDir, disk).st.agents = state.agents

\* the step is a call of launch
IsLaunch == last = Idle /\ last'.op = "launch"

\* ---- C18 ---------------------------------------------------------------
\* C18: a launch that returns an error, at whichever step, leaves no record
\* of the id it allocated, in memory or in state.json; the agents in memory
\* and the whole of state.json are what they were before the call.
C18_FailedLaunchLeavesNoRecord ==
  [][(IsLaunch /\ ~last'.ok)
       => /\ ~HasAgent(state', last'.id)
          /\ ~HasAgent(disk', last'.id)
          /\ state'.agents = state.agents
          /\ disk' = disk]_vars

\* the last step before the registration failed: worktree, window and
\* prompt file of the id are left behind, and no record
C18_Witness ==
  /\ last.op = "launch" /\ ~last.ok /\ last.val = "Tmux"
  /\ last.id \in worktrees /\ last.id \in windows /\ last.id \in prompt_files
  /\ ~HasAgent(state, last.id)
  /\ ~HasAgent(disk, last.id)

\* ---- C19 ---------------------------------------------------------------
\* C19: a launch that succeeds appends one agent to the registry and saves
\* it: Running, completed_at unset, id the decimal of the counter it found,
\* tmux_window the id, worktree_path .worktrees/<id>; on a fresh registry,
\* with main checked out and neither branch nor base given, the agent is
\* "1" on wta/1 with base main.
C19_SuccessfulLaunchRecord ==
  [][(IsLaunch /\ last'.ok)
       => LET id == DecStr(state.next_id)
              a  == state'.agents[Len(state'.agents)]
          IN /\ state'.agents = Append(state.agents, a)
             /\ state'.next_id = state.next_id + 1
             /\ last'.val = id
             /\ a.id = id
             /\ a.status = "Running"
             /\ a.completed_at = None
             /\ a.tmux_window = id
             /\ a.worktree_path = ".worktrees/" \o id
             /\ SavedNow
             /\ ( /\ state.agents = <<>> /\ state.next_id = 1
                  /\ head = "main" /\ last'.req = <<None, None>> )
                => /\ a.id = "1"
                   /\ a.branch = "wta/1"
                   /\ a.base_branch = "main"]_vars

C19_Witness ==
  /\ last.op = "launch" /\ last.ok /\ last.req = <<None, None>>
  /\ Len(state.agents) = 1
  /\ state.agents[1].id = "1"
  /\ state.agents[1].branch = "wta/1"
  /\ state.agents[1].base_branch = "main"
  /\ state.agents[1].status = "Running"
  /\ disk.exists /\ disk.next_id = 2
  /\ load_or_create(StateDir, disk).st.agents = state.agents

IsUnforcedMerge(id) ==
  /\ last.op # "merge"
  /\ last'.op = "merge" /\ last'.id = id /\ ~last'.force

\* C21: merge reconciles before it decides, on the command line and over
\* HTTP: a merge without force of an agent whose status file says completed
\* or failed, or that has no status file and no window, is never rejected
\* with AgentStillRunning.
C21_MergeReconcilesFirst ==
  [][\A id \in Ids :
       IsUnforcedMerge(id) /\ HasAgent(state, id) /\ Finished(id)
         => last'.val # "AgentStillRunning"]_vars

\* the same for the command line alone (cli/merge.rs calls check_status)
C21_CliMergeReconcilesFirst ==
  [][\A id \in Ids :
       IsUnforcedMerge(id) /\ last'.via = "cli" /\ HasAgent(state, id) /\ Finished(id)
         => last'.val # "AgentStillRunning"]_vars

\* a command-line merge, accepted for an agent that check_status has just
\* found finished
C21_CliWitness ==
  /\ last.op = "merge" /\ last.via = "cli" /\ last.ok /\ ~last.force
  /\ last.pre.status = "Completed"

\* ---- C22 ---------------------------------------------------------------
\* the step is a call of a public orchestrator method that returns an error
IsFailedCall ==
  /\ last = Idle
  /\ last'.op \in {"launch", "check_status", "merge", "remove", "prune"}
  /\ ~last'.ok

\* C22: when launch, check_status, merge, remove or prune returns an error,
\* the operation has taken no effect on the registry: no agent has been
\* added, erased or changed, and the registry in memory is the one a process
\* would load from state.json.
C22_ErrorMeansNoEffect ==
  [][IsFailedCall =>
       /\ state'.agents = state.agents
       /\ load_or_create(state'.state_dir, disk') = Loaded(TRUE, None, state')]_vars

\* ---- C23 ---------------------------------------------------------------
\* the handler of request r is between its state.lock().await and its return
Locked(r) == http.reqs[r].pc = "locked"

\* C23: the handlers never overlap: at most one request is between taking
\* the lock and returning, it is the holder of the mutex, and so the calls
\* of one handler are never interleaved with those of another: the requests
\* run in the serial order in which the lock was granted.
C23_HandlersNeverOverlap ==
  /\ \A r1, r2 \in Requests : Locked(r1) /\ Locked(r2) => r1 = r2
  /\ \A r \in Requests : Locked(r) => http.holder = r
  /\ http.holder # None => Locked(http.holder)

\* list_agents is halfway through its loop, having reconciled one agent,
\* while another request waits at the lock
C23_Witness ==
  /\ Locked("r1")
  /\ http.reqs["r1"].handler = "list_agents"
  /\ Len(http.reqs["r1"].todo) = 1
  /\ Cardinality(http.reqs["r1"].seen) = 1
  /\ http.reqs["r2"].pc = "waiting"

\* ---- C24 ---------------------------------------------------------------
\* the step is list_agents returning its response for request r
IsListResponse(r) ==
  /\ Locked(r)
  /\ http.reqs[r].handler = "list_agents"
  /\ http'.reqs[r].pc = "idle"

\* C24: every agent that the response of GET /api/agents shows as Running
\* was reconciled by that request, and when it was reconciled its status
\* file did not say completed or failed and it had a status file or a
\* window; this whether or not the reconciliation of another agent, or its
\* own, returned an error.
C24_ListShowsReconciled ==
  [][\A r \in Requests :
       IsListResponse(r) =>
         \A i \in 1..Len(list_response(state)) :
           list_response(state)[i].status = "Running" =>
             \E ok \in BOOLEAN :
               <<list_response(state)[i].id, FALSE, ok>> \in http.reqs[r].seen]_vars

\* list_agents about to respond: the reconciliation of agent 1 returned an
\* error (its status file is not JSON), agent 2 had finished and is shown
\* as such
C24_Witness ==
  /\ Locked("r1")
  /\ http.reqs["r1"].handler = "list_agents"
  /\ http.reqs["r1"].todo = <<>>
  /\ http.reqs["r1"].seen = {<<"1", FALSE, FALSE>>, <<"2", TRUE, TRUE>>}
  /\ last = Idle
  /\ list_response(state)[1] = [id |-> "1", status |-> "Running"]
  /\ list_response(state)[2].status \in {"Completed", "Failed"}

\* ---- C25 ---------------------------------------------------------------
\* the registry a process would load from state.json
Stored == load_or_create(StateDir, disk)

\* C25: last writer wins.  A step that writes state.json writes the whole
\* registry, agents and counter, of the process that takes the step,
\* whatever the file held and whatever the other process holds; and at any
\* time the agents in state.json are exactly those in the memory of the
\* process that saved last, with nothing merged in from the other.
C25_LastWriterWins ==
  [][/\ (disk' # disk) =>
           ( /\ last'.saved
             /\ other'.saver = "this"
             /\ load_or_create(StateDir, disk') = Loaded(TRUE, None, state') )
     /\ (other'.saver = "this") =>
           (load_or_create(StateDir, disk').st.agents = state'.agents)
     /\ (other'.saver = "other") =>
           (load_or_create(StateDir, disk').st.agents = other'.st.agents)]_vars

\* a lost update: the process that saved last, in check_status of agent 1,
\* had loaded the registry before the other process launched agent 2;
\* state.json now holds its registry, without agent 2, whose window and
\* worktree are there and which the other process still holds
C25_Witness ==
  /\ other.saver = "this"
  /\ last.op = "check_status" /\ last.id = "1" /\ last.saved
  /\ HasAgent(other.st, "2")
  /\ ~HasAgent(state, "2")
  /\ Stored = Loaded(TRUE, None, state)
  /\ "2" \in worktrees /\ "2" \in windows

\* ---- C26 ---------------------------------------------------------------
\* the step is a call of load_or_create
IsLoad == last.op # "load_or_create" /\ last'.op = "load_or_create"

\* the file is a registry document: JSON with a u64 counter and agents whose
\* status is a variant name and whose completed_at is null or a timestamp
WellFormedFile(d) ==
  /\ d.syntax = "json"
  /\ d.next_id \in Nat
  /\ \A i \in 1..Len(d.agents) :
       /\ d.agents[i].status \in {"running", "completed", "failed", "merged"}
       /\ d.agents[i].completed_at \in {"null", "rfc3339"}

\* the agent in memory is the one of the document
SameAgent(a, j) ==
  /\ <<a.id, a.branch, a.base_branch, a.worktree_path, a.tmux_window>>
       = <<j.id, j.branch, j.base_branch, j.worktree_path, j.tmux_window>>
  /\ <<a.status, j.status>> \in
       { <<"Running", "running">>, <<"Completed", "completed">>,
         <<"Failed", "failed">>, <<"Merged", "merged">> }
  /\ <<a.completed_at, j.completed_at>> \in {<<None, "null">>, <<"Some", "rfc3339">>}

C27_RoundTrip ==
  [][/\ (last = Idle /\ last'.op = "save") =>
          "state_dir" \notin DOMAIN disk'
     /\ (last.op = "save" /\ last'.op = "load_or_create") =>
          /\ last'.ok
          /\ state' = [state EXCEPT !.state_dir = last'.id]]_vars

\* a registry of two agents, one merged without a completion time and one
\* failed, saved from one directory and loaded back as from the other
C27_Witness ==
  /\ last.op = "load_or_create" /\ last.via = "save" /\ last.ok
  /\ last.id # StateDir
  /\ state.state_dir = last.id
  /\ state.next_id = 3
  /\ Len(state.agents) = 2
  /\ <<state.agents[1].id, state.agents[1].status, state.agents[1].completed_at>>
       = <<"1", "Merged", None>>
  /\ <<state.agents[2].id, state.agents[2].status, state.agents[2].completed_at>>
       = <<"2", "Failed", "Some">>
  /\ disk = save(state)

\* ------------------------------------------------------------------------
\* C28: for every task s and every n >= 0, truncate_task(s, n) returns a
\* string of at most max(n, 3) characters, which is s exactly when s has at
\* most n characters; a longer s gives its first max(n - 3, 0) characters
\* followed by "...".
\* ------------------------------------------------------------------------
Max(a, b) == IF a > b THEN a ELSE b

TruncateDone == pure.fn = "truncate_task" /\ (pure.returned \/ pure.panicked)

C28_TruncateTask ==
  TruncateDone =>
    /\ pure.returned
    /\ len_chars(pure.out) <= Max(pure.max_len, 3)
    /\ (pure.out = pure.task) <=> (len_chars(pure.task) <= pure.max_len)
    /\ (len_chars(pure.task) > pure.max_len) =>
         (pure.out = SubSeq(pure.task, 1, Max(pure.max_len - 3, 0)) \o Ellipsis)

\* What the code does guarantee: on a task of one-byte characters the call
\* returns, within the bound, the task itself when it fits and the cut task
\* followed by "..." when it does not.
IsAscii(s) == \A i \in 1..Len(s) : len_utf8(s[i]) = 1

C28_AsciiTruncateTask ==
  (TruncateDone /\ IsAscii(pure.task)) =>
    /\ pure.returned
    /\ len_chars(pure.out) <= Max(pure.max_len, 3)
    /\ (len_chars(pure.task) <= pure.max_len) => (pure.out = pure.task)
    /\ (len_chars(pure.task) > pure.max_len) =>
         (pure.out = SubSeq(pure.task, 1, Max(pure.max_len - 3, 0)) \o Ellipsis)

\* a task of multi-byte characters makes the call panic
C28_PanicWitness ==
  /\ pure.fn = "truncate_task"
  /\ pure.panicked
  /\ pure.task = <<"U+00E9", "U+00E9", "U+00E9">>
  /\ pure.max_len = 4

\* ------------------------------------------------------------------------
\* C29: the Claude command.  With --dangerously-allow-all among the extra
\* arguments it carries no permission flags and passes only that flag;
\* otherwise it is cd <worktree> && cat <prompt_file> | claude
\* --permission-mode acceptEdits --allowedTools '<list>,Write(<status_dir>/*)'
\* followed by the extra arguments, status_dir being the parent directory of
\* the status file.
\* ------------------------------------------------------------------------
CommandDone == pure.fn = "build_claude_command" /\ pure.returned

CdCat == "cd " \o display(pure.worktree_path) \o " && cat " \o display(pure.prompt_file)

StatusDir == IF pure.status_file = Root THEN ""
             ELSE display(SubSeq(pure.status_file, 1, Len(pure.status_file) - 1))

RECURSIVE Spaced(_)
Spaced(args) == IF args = <<>> THEN "" ELSE " " \o Head(args) \o Spaced(Tail(args))

SafeCommand ==
  CdCat \o " | claude --permission-mode acceptEdits --allowedTools '"
    \o join(default_allowed_tools, ",") \o ",Write(" \o StatusDir \o "/*)'"
    \o Spaced(pure.extra_args)

C29_ClaudeCommand ==
  CommandDone =>
    IF contains(pure.extra_args, DangerouslyAllowAll)
      THEN pure.out = CdCat \o " | claude " \o DangerouslyAllowAll
      ELSE pure.out = SafeCommand

\* What the code does: the flag is written first and every extra argument,
\* the flag included, follows it.
C29_ClaudeCommandAsBuilt ==
  CommandDone =>
    IF contains(pure.extra_args, DangerouslyAllowAll)
      THEN pure.out = CdCat \o " | claude " \o DangerouslyAllowAll
                        \o Spaced(pure.extra_args)
      ELSE pure.out = SafeCommand

C29_TwiceWitness ==
  /\ CommandDone
  /\ pure.extra_args = <<DangerouslyAllowAll>>
  /\ pure.out = CdCat \o " | claude --dangerously-allow-all --dangerously-allow-all"

\* ------------------------------------------------------------------------
\* C30: after merge_branch returns MergeConflict, under any of the three
\* strategies, the main working tree is restored: nothing is left in
\* progress and the checked-out branch is the base branch.
\* ------------------------------------------------------------------------
C30_ConflictRestoresBase ==
  [][\A id \in Ids :
       (IsMerge(id) /\ last'.val = "MergeConflict")
       => head' = get_agent(state, id).base_branch]_vars

\* What the code does guarantee: after MergeConflict the main working tree
\* is on the base branch or on the agent's branch, and on the base branch
\* whenever the agent's worktree exists.
C30_ConflictLeavesBaseOrBranch ==
  [][\A id \in Ids :
       (IsMerge(id) /\ last'.val = "MergeConflict")
       => /\ head' \in {get_agent(state, id).base_branch, get_agent(state, id).branch}
          /\ (id \in worktrees) => (head' = get_agent(state, id).base_branch)]_vars

\* a conflict that leaves the main working tree on the agent's branch
C30_OnAgentBranchWitness ==
  /\ last.op = "merge" /\ last.val = "MergeConflict"
  /\ HasAgent(state, last.id)
  /\ head = get_agent(state, last.id).branch
  /\ head # get_agent(state, last.id).base_branch

\* ------------------------------------------------------------------------
\* C32: for any porcelain listing, list returns, in input order, exactly one
\* {path, branch} pair for each `worktree <path>` block that has a
\* `branch refs/heads/<name>` line, the path paired with a branch line of
\* its own block; blocks without a branch line are skipped and other lines
\* are ignored.
\* ------------------------------------------------------------------------
ListDone == pure.fn = "list" /\ pure.returned

IsWorktreeLine(i) == pure.stdout[i].prefix = "worktree "
IsBranchLine(i) == pure.stdout[i].prefix = "branch refs/heads/"

\* the lines of the block that the worktree line i opens
BlockOf(i) ==
  {j \in (i + 1)..Len(pure.stdout) : \A k \in (i + 1)..j : ~IsWorktreeLine(k)}

BranchesOf(i) == {pure.stdout[j].rest : j \in {k \in BlockOf(i) : IsBranchLine(k)}}

BranchBlocks == {i \in 1..Len(pure.stdout) : IsWorktreeLine(i) /\ BranchesOf(i) # {}}

RankOf(i) == Cardinality({j \in BranchBlocks : j <= i})

C32_ListPairsBlocks ==
  ListDone =>
    /\ Len(pure.out) = Cardinality(BranchBlocks)
    /\ \A i \in BranchBlocks :
         /\ pure.out[RankOf(i)].path = pure.stdout[i].rest
         /\ pure.out[RankOf(i)].branch \in BranchesOf(i)

\* a detached block between two blocks with a branch: two pairs, each with
\* its own branch
C32_Witness ==
  /\ ListDone
  /\ pure.stdout = << [prefix |-> "worktree ", rest |-> "/repo"],
                      [prefix |-> "branch refs/heads/", rest |-> "main"],
                      [prefix |-> "worktree ", rest |-> "/repo/.worktrees/1"],
                      [prefix |-> "worktree ", rest |-> "/repo"],
                      [prefix |-> "branch refs/heads/", rest |-> "wta/1"] >>
  /\ pure.out = << [path |-> "/repo", branch |-> "main"],
                   [path |-> "/repo", branch |-> "wta/1"] >>

\* ------------------------------------------------------------------------
\* C31: in every launch the id is allocated, then the worktree is created,
\* then the window is created in the worktree, then the prompt file is
\* written, then the provider command is sent, and only then is the agent
\* recorded and the registry saved; the command is never sent before its
\* prompt file exists.
\* ------------------------------------------------------------------------
IsPrefix(s, t) == Len(s) <= Len(t) /\ s = SubSeq(t, 1, Len(s))

LaunchOrder ==
  <<"next_id", "worktree", "create_window", "prompt_file", "send_keys", "add_agent">>

C31_LaunchOrder ==
  [][/\ IsPrefix(pure'.done, LaunchOrder)
     /\ \A id \in Ids :
          /\ (id \in windows' \ windows)
               => (id \in worktrees /\ <<id, id>> \in pure'.cwd)
          /\ (id \in prompt_files' \ prompt_files) => (id \in windows)
          /\ (id \in pure'.sent \ pure.sent)
               => (id \in prompt_files /\ id \in windows /\ ~HasAgent(state, id))
          /\ (HasAgent(state', id) /\ ~HasAgent(state, id))
               => (/\ id \in pure.sent
                   /\ id = DecStr(state.next_id - 1)
                   /\ load_or_create(StateDir, disk') = Loaded(TRUE, None, state'))]_vars

\* a launch that went through all six steps
C31_Witness ==
  /\ pure.fn = "launch"
  /\ pure.done = LaunchOrder
  /\ last.op = "launch" /\ last.ok
  /\ last.id \in pure.sent
  /\ last.id \in prompt_files

\* ------------------------------------------------------------------------
\* C33: the worktree manager only ever creates or removes the path
\* <worktrees_dir>/<id>; checkout_existing and create return
\* WorktreeAlreadyExists without running git when that path exists, create
\* returns BranchAlreadyExists when git reports that the branch exists and
\* CommandFailed on any other git failure, and remove returns
\* WorktreeNotFound without running git when the path is absent.
\* ------------------------------------------------------------------------
ManagerCalled == pure.fn = "worktree_manager" /\ pure.call.op # "-"

\* the directory <worktrees_dir>/<id>
Under(id) == Abs(worktrees_dir.parts \o id.parts)

\* the directory the call is about: <worktrees_dir>/<id> for a relative id,
\* the id itself when it is an absolute path
TargetOf(id) == IF id.abs THEN id ELSE Under(id)

\* the directories the call made or removed
Touched == (pure.paths \ pure.call.paths) \cup (pure.call.paths \ pure.paths)

ManagerErrors(target) ==
  LET c == pure.call IN
  /\ (c.op \in {"create", "checkout_existing"} /\ target \in c.paths)
       => (c.err = "WorktreeAlreadyExists" /\ ~c.ran_git)
  /\ (c.op = "remove" /\ target \notin c.paths)
       => (c.err = "WorktreeNotFound" /\ ~c.ran_git)
  /\ (c.op = "create" /\ target \notin c.paths)
       => /\ c.ran_git
          /\ (c.git = "already exists") => (c.err = "BranchAlreadyExists")
          /\ (c.git = "failed") => (c.err = "CommandFailed")
          /\ (c.git = "ok") => (c.err = None /\ target \in pure.paths)
  /\ (c.op = "checkout_existing" /\ target \notin c.paths)
       => /\ c.ran_git
          /\ (c.git # "ok") => (c.err = "CommandFailed")
          /\ (c.git = "ok") => (c.err = None /\ target \in pure.paths)
  /\ (c.op = "remove" /\ target \in c.paths)
       => /\ c.ran_git
          /\ (c.git # "ok") => (c.err = "CommandFailed")
          /\ (c.git = "ok") => (c.err = None /\ target \notin pure.paths)
  /\ (c.err # None) => (Touched = {})

\* the claim as stated: the path is always <worktrees_dir>/<id>
C33_OnlyUnderWorktreesDir ==
  ManagerCalled =>
    /\ Touched \subseteq {Under(pure.call.id)}
    /\ ManagerErrors(Under(pure.call.id))

\* the path is worktrees_dir.join(id): <worktrees_dir>/<id> for a relative
\* id and the id itself for an absolute one
C33_OnlyJoinedPath ==
  ManagerCalled =>
    /\ Touched \subseteq {TargetOf(pure.call.id)}
    /\ ManagerErrors(TargetOf(pure.call.id))

\* create found that the branch exists, after a worktree was made for id 1
C33_Witness ==
  /\ ManagerCalled
  /\ pure.call.op = "create"
  /\ pure.call.err = "BranchAlreadyExists"
  /\ pure.call.ran_git
  /\ Under(Rel(<<"1">>)) \in pure.paths

\* `wta worktree add feat --path /tmp/x`: the worktree is made at /tmp/x
C33_AbsoluteWitness ==
  /\ ManagerCalled
  /\ pure.call.op = "create"
  /\ pure.call.err = None
  /\ pure.call.id = Abs(<<"tmp", "x">>)
  /\ Touched = {Abs(<<"tmp", "x">>)}

\* ------------------------------------------------------------------------
\* C34: an id consumed by a launch that failed after its worktree or branch
\* was made is not handed out again by a later launch, in a new process
\* either, so that no launch of an automatically named agent fails with
\* WorktreeAlreadyExists or BranchAlreadyExists.
\* ------------------------------------------------------------------------
C34_FailedLaunchIdNotReissued ==
  [][(IsLaunch /\ last'.req[1] = None)
       => /\ last'.id \notin worktrees
          /\ AutoBranch(last'.id) \notin branches
          /\ last'.val \notin {"WorktreeAlreadyExists", "BranchAlreadyExists"}]_vars

\* a launch that is given id 1 again and finds .worktrees/1 in its way
C34_ReissuedWitness ==
  /\ last.op = "launch" /\ last.id = "1"
  /\ last.val = "WorktreeAlreadyExists"
  /\ ~HasAgent(state, "1")
  /\ "1" \in worktrees

\* ------------------------------------------------------------------------
\* C35: if a Running agent's window has disappeared or its status file has
\* been written, with any content, then repeated check_status calls
\* eventually move the agent out of Running.
\* ------------------------------------------------------------------------
IsRunning(id) == HasAgent(state, id) /\ StatusOf(state, id) = "Running"

C35_ReconciliationProgress ==
  \A id \in Ids :
    (IsRunning(id) /\ (id \notin windows \/ status_files[id] # "absent"))
      ~> ~IsRunning(id)

\* What the code does guarantee: progress when the status file says
\* completed or failed, and when there is no status file and no window.
C35_ProgressOnReadableFile ==
  \A id \in Ids :
    (IsRunning(id) /\ \/ status_files[id] \in {"completed", "failed"}
                      \/ (status_files[id] = "absent" /\ id \notin windows))
      ~> ~IsRunning(id)

\* check_status has just left the agent Running although its window is gone
C35_StuckWitness ==
  /\ last.op = "check_status"
  /\ IsRunning(last.id)
  /\ last.id \notin windows
  /\ status_files[last.id] \in {"invalid", "unknown"}

\* ------------------------------------------------------------------------
\* C36: remove(id, force = true) on an id of the registry always erases the
\* entry and returns success, whatever the state of the status file, the
\* window, the worktree and the branch.
\* ------------------------------------------------------------------------
C36_ForcedRemoveAlwaysErases ==
  [][\A id \in Ids :
       (IsRemove(id) /\ last'.force /\ HasAgent(state, id))
       => (last'.ok /\ ~HasAgent(state', id))]_vars

\* a forced remove that returned the Json error and left the entry
C36_RefusedWitness ==
  /\ last.op = "remove" /\ last.force
  /\ ~last.ok /\ last.val = "Json"
  /\ HasAgent(state, last.id)

\* ------------------------------------------------------------------------
\* C37: a branch that existed before launch, to which the agent was attached
\* with checkout_existing (base_branch = branch), is never deleted by merge,
\* remove or prune of that agent.
\* ------------------------------------------------------------------------
Attached(id) ==
  /\ HasAgent(state, id)
  /\ get_agent(state, id).branch = get_agent(state, id).base_branch
  /\ get_agent(state, id).branch \in branches

ActsOn(id) ==
  /\ last = Idle
  /\ \/ last'.op \in {"merge", "remove"} /\ last'.id = id
     \/ last'.op = "prune" /\ \E i \in 1..Len(last'.pruned) : last'.pruned[i].id = id

C37_AttachedBranchKept ==
  [][\A id \in Ids :
       (ActsOn(id) /\ Attached(id)) => (get_agent(state, id).branch \in branches')]_vars

\* merge never deletes the branch of an attached agent: it is the base
\* branch, which merge_branch has checked out
C37_MergeKeepsAttachedBranch ==
  [][\A id \in Ids :
       (IsMerge(id) /\ Attached(id)) => (get_agent(state, id).branch \in branches')]_vars

\* remove has deleted the user's branch feat
C37_DeletedWitness ==
  /\ last.op = "remove" /\ last.ok
  /\ "feat" \notin branches

\* ------------------------------------------------------------------------
\* C38: whenever an operation has moved an agent into Completed, Failed or
\* Merged, the agent's window no longer exists afterwards, including when
\* merge is called with force on a Running agent.
\* ------------------------------------------------------------------------
MovedToTerminal(id) ==
  /\ HasAgent(state, id) /\ HasAgent(state', id)
  /\ StatusOf(state', id) \in Terminal
  /\ StatusOf(state', id) # StatusOf(state, id)

C38_FinishedMeansNoWindow ==
  [][\A id \in Ids :
       MovedToTerminal(id) => (get_agent(state', id).tmux_window \notin windows')]_vars

\* check_status does close the window when it finishes an agent
C38_CheckStatusClosesWindow ==
  [][\A id \in Ids :
       (MovedToTerminal(id) /\ last'.op # "merge")
       => (get_agent(state', id).tmux_window \notin windows')]_vars

\* a Merged agent whose window is still there
C38_WindowLeftWitness ==
  /\ last.op = "merge" /\ last.ok /\ last.force
  /\ StatusOf(state, last.id) = "Merged"
  /\ last.id \in windows

\* ------------------------------------------------------------------------
\* C39: within one process, whenever an operation returns success,
\* reloading state.json yields the next_id and the agents of the State in
\* memory (an absent file counting as the empty registry with next_id = 1).
\* ------------------------------------------------------------------------
Returns == last = Idle /\ last' # Idle

C39_SuccessMeansInSync ==
  [][(Returns /\ last'.ok)
       => load_or_create(StateDir, disk') = Loaded(TRUE, None, state')]_vars

\* What the code does guarantee: after a success the agents on disk are the
\* agents in memory, and the counter on disk is not ahead of the one in
\* memory.
C39_SuccessMeansAgentsInSync ==
  [][(Returns /\ last'.ok)
       => /\ load_or_create(StateDir, disk').ok
          /\ load_or_create(StateDir, disk').st.agents = state'.agents
          /\ load_or_create(StateDir, disk').st.next_id <= state'.next_id]_vars

\* check_status succeeded while the counter in memory is ahead of state.json
C39_AheadWitness ==
  /\ last.op = "check_status" /\ last.ok
  /\ load_or_create(StateDir, disk).st.next_id < state.next_id

\* ------------------------------------------------------------------------
\* C40: check_status(id), merge(id, ..) and remove(id, ..) change no field
\* of the record of another id, in memory or in state.json, and never kill
\* the window, remove the worktree or delete the prompt or status file of
\* another id.
\* ------------------------------------------------------------------------
Addressed(id) ==
  /\ last = Idle
  /\ last'.op \in {"check_status", "merge", "remove"}
  /\ last'.id = id

RecordOn(d, id) ==
  LET st == load_or_create(StateDir, d).st
  IN  IF HasAgent(st, id) THEN get_agent(st, id) ELSE None

C40_OtherAgentsUntouched ==
  [][\A id \in Ids, j \in Ids :
       (Addressed(id) /\ j # id)
       => /\ HasAgent(state', j) = HasAgent(state, j)
          /\ HasAgent(state, j) => (get_agent(state', j) = get_agent(state, j))
          /\ (last'.saved /\ HasAgent(state, j)) => (RecordOn(disk', j) = get_agent(state, j))
          /\ (j \in windows) => (j \in windows')
          /\ (j \in worktrees) => (j \in worktrees')
          /\ (j \in prompt_files) => (j \in prompt_files')
          /\ status_files'[j] = status_files[j]]_vars

\* agent 1 was removed while agent 2 was running: agent 2 has everything
C40_Witness ==
  /\ last.op = "remove" /\ last.ok /\ last.id = "1"
  /\ ~HasAgent(state, "1")
  /\ HasAgent(state, "2") /\ StatusOf(state, "2") = "Running"
  /\ "2" \in windows /\ "2" \in worktrees /\ "2" \in prompt_files
  /\ status_files["2"] = "invalid"
  /\ "1" \notin windows /\ "1" \notin worktrees

====
